---- MODULE Spec2Model ----
(***************************************************************************)
(* Model of the quiz session engine (class QuizEngine) of onmind-qna.      *)
(*                                                                         *)
(* Strings are modelled as sequences of one-character strings, so that     *)
(* split(''), sort() and includes() are computed as the code computes      *)
(* them.  Array positions are 0-based in the code; sequences are 1-based   *)
(* here, so selectedQuestions[i] of the code is selectedQuestions[i + 1].  *)
(* The entries of allQuestions and selectedQuestions are references to     *)
(* the question objects of the caller's array: they are modelled as        *)
(* positions in pool, so an in-place change of a question object is seen   *)
(* through every reference to it.                                          *)
(***************************************************************************)
EXTENDS Integers, Sequences, FiniteSets, TLC

VARIABLES
    pool,               \* the question objects of the array given to the constructor
    engine,             \* "none": no engine yet; "ok": constructed; "failed": constructor threw
    allQuestions,       \* this.allQuestions (positions in pool)
    numberOfQuestions,  \* this.numberOfQuestions
    selectedQuestions,  \* this.selectedQuestions (positions in pool)
    currentIndex,       \* this.currentIndex (0-based)
    userAnswers,        \* this.userAnswers
    startTime,          \* this.startTime
    endTime,            \* this.endTime
    isCompleted,        \* this.isCompleted
    clock,              \* the wall clock read by new Date()
    ret,                \* the last call: its argument and what it returned or threw
    submitted,          \* history: a submitAnswer has succeeded since the run began
    processedQuestions, \* MarkdownParser: this.processedQuestions
    skippedQuestions,   \* MarkdownParser: this.skippedQuestions
    validationErrors,   \* MarkdownParser: this.validationErrors (the messages)
    parsingWarnings,    \* MarkdownParser: this.parsingWarnings (the messages)
    markdownContent,    \* QuizApp.loadQuestions: the lines of the loaded document
    loadingErrors,      \* FileHandler: this.loadingErrors (the messages)
    validationWarnings, \* FileHandler: this.validationWarnings (the messages)
    appQuestions,       \* QuizApp: this.questions
    currentFilePath,    \* QuizApp: this.currentFilePath
    isInitialized,      \* QuizApp: this.isInitialized
    loading,            \* QuizApp: the loadQuestions calls waiting for their file
    shown,              \* UIController: the screen the last display call asked for
    attempt,            \* loadFileWithRetry: the attempts made
    lastError,          \* loadFileWithRetry: lastError (its message)
    delays,             \* loadFileWithRetry: the waits made, in milliseconds
    fetches             \* history: what fetch gave at each attempt

vars == <<pool, engine, allQuestions, numberOfQuestions, selectedQuestions,
          currentIndex, userAnswers, startTime, endTime, isCompleted, clock,
          ret, submitted, processedQuestions, skippedQuestions,
          validationErrors, parsingWarnings, markdownContent, loadingErrors,
          validationWarnings, appQuestions, currentFilePath, isInitialized,
          loading, shown, attempt, lastError, delays, fetches>>

session == <<allQuestions, numberOfQuestions, selectedQuestions, currentIndex,
             userAnswers, startTime, endTime, isCompleted>>

parsing == <<processedQuestions, skippedQuestions, validationErrors, parsingWarnings,
             markdownContent, loadingErrors, validationWarnings, appQuestions,
             currentFilePath, isInitialized, loading, shown,
             attempt, lastError, delays, fetches>>

\* the fields of QuizApp besides its questions, and the screen
application == <<currentFilePath, isInitialized, loading, shown>>

\* the state of a call of loadFileWithRetry
retry == <<attempt, lastError, delays, fetches>>

----------------------------------------------------------------------------
(* Bounds and inputs *)

MaxClock == 1
MaxCount == 2
\* counts down to -MaxNegCount are requested
MaxNegCount == 1

\* numberOfQuestions = 10 when the constructor is called without a count
DefaultNumberOfQuestions == 10

\* this.validationRules.maxAnswerLength
maxAnswerLength == 10

\* QuizApp as its constructor leaves it: the default file, not initialized,
\* no load under way; the page shows the configuration
Constructed ==
    /\ currentFilePath = "Quiz.md"
    /\ isInitialized = FALSE
    /\ loading = {}
    /\ shown = "config"

\* loadFileWithRetry before its first attempt
NoFetch ==
    /\ attempt = 0
    /\ lastError = <<>>
    /\ delays = <<>>
    /\ fetches = <<>>

\* milliseconds between two readings of the clock that differ by one
TickMs == 500

\* null in userAnswers, and null in startTime / endTime
Null == <<"null">>
NoTime == 0 - 1

Min(a, b) == IF a < b THEN a ELSE b
Max(a, b) == IF a > b THEN a ELSE b

Range(s) == {s[i] : i \in 1..Len(s)}

\* question objects as the parser produces them (and two malformed ones)
QA == [id |-> "001", content |-> "First question text",
       options |-> [A |-> "x", B |-> "y"], correctAnswers |-> <<"A">>]
QB == [id |-> "002", content |-> "Second question text",
       options |-> [A |-> "p", B |-> "q", C |-> "r", D |-> "s"],
       correctAnswers |-> <<"C", "B">>]
QC == [id |-> "003", content |-> "Third question text",
       options |-> [A |-> "u", B |-> "v"], correctAnswers |-> <<"B">>]
QD == [id |-> "004", content |-> "Fourth question text",
       options |-> [A |-> "m", B |-> "n"], correctAnswers |-> <<"A">>]
QOneOption == [id |-> "005", content |-> "Fifth question text",
               options |-> [A |-> "w"], correctAnswers |-> <<"A">>]
QNoAnswer == [id |-> "006", content |-> "Sixth question text",
              options |-> [A |-> "w", B |-> "z"], correctAnswers |-> <<>>]

Pools == { <<>>, <<QNoAnswer, QOneOption>>, <<QB>>, <<QA, QB>>,
           <<QOneOption, QB>>, <<QA, QC, QD>> }

ElevenAs == <<"A", "A", "A", "A", "A", "A", "A", "A", "A", "A", "A">>

\* the strings given to submitAnswer
AnswerInputs == { <<>>, <<"A">>, <<"B">>, <<"C">>, <<"a">>,
                  <<"C", "B">>, <<"B", "C", "D">>, ElevenAs }

\* the counts given to the constructor and to startNewQuiz
Counts == ((0 - MaxNegCount)..MaxCount) \cup {DefaultNumberOfQuestions}

\* the count arguments of startNewQuiz: <<>> for none
CountArgs == {<<>>} \cup {<<n>> : n \in Counts}

----------------------------------------------------------------------------
(* Characters *)

UpperCase == {"A", "B", "C", "D", "E", "F", "G", "H", "I", "J", "K", "L", "M",
              "N", "O", "P", "Q", "R", "S", "T", "U", "V", "W", "X", "Y", "Z"}

\* UTF-16 code unit of a character, the order Array.prototype.sort() uses
CharCode(c) ==
    CASE c = "1" -> 49
      [] c = "A" -> 65 [] c = "B" -> 66 [] c = "C" -> 67 [] c = "D" -> 68
      [] c = "E" -> 69 [] c = "a" -> 97
      [] OTHER -> 90

RECURSIVE Insert(_, _)
Insert(c, s) ==
    IF s = <<>> THEN <<c>>
    ELSE IF CharCode(c) < CharCode(Head(s)) THEN <<c>> \o s
    ELSE <<Head(s)>> \o Insert(c, Tail(s))

\* Array.prototype.sort() on an array of one-character strings
RECURSIVE Sort(_)
Sort(s) == IF s = <<>> THEN <<>> ELSE Insert(Head(s), Sort(Tail(s)))

----------------------------------------------------------------------------
(* Pure helpers of QuizEngine *)

NoVal == [isNull |-> TRUE]

\* the record of a call: its name, its argument (<<>> when it has none), the
\* error it threw ("" when none) and the value it returned
Returned(op, arg, val) == [op |-> op, arg |-> arg, err |-> "", val |-> val]
Threw(op, arg, err) == [op |-> op, arg |-> arg, err |-> err, val |-> NoVal]

\* truthiness of question.options[letter]
HasOption(question, letter) ==
    /\ letter \in DOMAIN question.options
    /\ question.options[letter] /= ""

validateQuestionStructure(question) ==
    /\ question.id /= ""
    /\ question.content /= ""
    /\ Cardinality(DOMAIN question.options) >= 2
    /\ Len(question.correctAnswers) /= 0

\* validateInitialQuestions without the check that follows the filtering
validateInitialQuestions_NoRecheck(questions) ==
    LET all == [i \in 1..Len(questions) |-> i]
        valid == SelectSeq(all, LAMBDA i : validateQuestionStructure(questions[i]))
    IN  IF Len(all) = 0 THEN [err |-> "EmptyPool", allQuestions |-> all]
        ELSE [err |-> "", allQuestions |-> valid]

\* the error thrown ("" when none) and this.allQuestions afterwards
validateInitialQuestions(questions) ==
    LET all == [i \in 1..Len(questions) |-> i]
        valid == SelectSeq(all, LAMBDA i : validateQuestionStructure(questions[i]))
    IN  IF Len(all) = 0 THEN [err |-> "EmptyPool", allQuestions |-> all]
        ELSE IF Len(valid) = 0 THEN [err |-> "EmptyPool", allQuestions |-> valid]
        ELSE [err |-> "", allQuestions |-> valid]

\* a draw that leaves the drawn question in availableQuestions
Splice_Keep(available, randomIndex) == available

\* availableQuestions.splice(randomIndex, 1), randomIndex 1-based here
Splice(available, randomIndex) ==
    [i \in 1..(Len(available) - 1) |->
        IF i < randomIndex THEN available[i] ELSE available[i + 1]]

\* every selectedQuestions the loop can end with, one per outcome of Math.random()
RECURSIVE DrawLoop(_, _, _, _)
DrawLoop(available, selected, i, num) ==
    IF i < num /\ Len(available) > 0
    THEN UNION { DrawLoop(Splice(available, randomIndex),
                          Append(selected, available[randomIndex]), i + 1, num) :
                 randomIndex \in 1..Len(available) }
    ELSE {selected}

selectRandomQuestions(all, num) == DrawLoop(all, <<>>, 0, num)

\* new Array(n).fill(null)
NullAnswers(n) == [i \in 1..n |-> Null]

\* getCurrentQuestion with isLast compared against the length
getCurrentQuestion_IsLastAtLength(selected, index) ==
    IF index >= Len(selected) THEN NoVal
    ELSE [isNull |-> FALSE,
          question |-> selected[index + 1],
          questionNumber |-> index + 1,
          totalQuestions |-> Len(selected),
          isLast |-> (index + 1 = Len(selected) - 1)]

getCurrentQuestion(selected, index) ==
    IF index >= Len(selected) THEN NoVal
    ELSE [isNull |-> FALSE,
          question |-> selected[index + 1],
          questionNumber |-> index + 1,
          totalQuestions |-> Len(selected),
          isLast |-> (index = Len(selected) - 1)]

\* the value returned, and the question objects afterwards (sort() is in place)
isAnswerCorrect(questions, selected, questionIndex, userAnswer) ==
    IF questionIndex >= Len(selected) THEN [result |-> FALSE, pool |-> questions]
    ELSE LET q == selected[questionIndex + 1] IN
         IF Len(userAnswer) > 1
         THEN LET userAnswerArray == Sort(userAnswer)
                  correctAnswerArray == Sort(questions[q].correctAnswers)
              IN  [result |-> /\ Len(userAnswerArray) = Len(correctAnswerArray)
                              /\ \A i \in 1..Len(userAnswerArray) :
                                    userAnswerArray[i] = correctAnswerArray[i],
                   pool |-> [questions EXCEPT ![q].correctAnswers = correctAnswerArray]]
         ELSE [result |-> \E i \in 1..Len(questions[q].correctAnswers) :
                              <<questions[q].correctAnswers[i]>> = userAnswer,
               pool |-> questions]

\* validateQuizState without the isCompleted check
validateQuizState_NoCompletedCheck(selected, completed) ==
    IF Len(selected) = 0 THEN "QuizNotInitialized"
    ELSE ""

validateQuizState(selected, completed) ==
    IF Len(selected) = 0 THEN "QuizNotInitialized"
    ELSE IF completed THEN "QuizCompleted"
    ELSE ""

validateAnswerFormat(answer) ==
    IF Len(answer) = 0 THEN "MalformedAnswer"
    ELSE IF Len(answer) > maxAnswerLength THEN "MalformedAnswer"
    ELSE IF \E i \in 1..Len(answer) : answer[i] \notin UpperCase THEN "MalformedAnswer"
    ELSE ""

\* validateAnswerForQuestion looking at the first letter only
validateAnswerForQuestion_FirstLetter(answer, question) ==
    IF ~HasOption(question, answer[1]) THEN "UnknownOption"
    ELSE ""

validateAnswerForQuestion(answer, question) ==
    IF \E i \in 1..Len(answer) : ~HasOption(question, answer[i]) THEN "UnknownOption"
    ELSE ""

\* Math.round(x / y) for y > 0: halves go up
RoundDiv(x, y) == (2 * x + y) \div (2 * y)

\* the loop of calculateScore from position i on: the count and the question
\* objects afterwards
RECURSIVE ScoreLoop(_, _, _, _, _)
ScoreLoop(questions, selected, answers, i, correctCount) ==
    IF i >= Len(selected) THEN [correctCount |-> correctCount, pool |-> questions]
    ELSE IF answers[i + 1] = Null
         THEN ScoreLoop(questions, selected, answers, i + 1, correctCount)
         \* r is the one result of the call isAnswerCorrect(i, userAnswers[i])
         ELSE CHOOSE rest \in
                  { ScoreLoop(r.pool, selected, answers, i + 1,
                              IF r.result THEN correctCount + 1 ELSE correctCount) :
                    r \in {isAnswerCorrect(questions, selected, i, answers[i + 1])} } :
                  TRUE

\* the pairs (correctCount, length), length <= 100, for which the double
\* (correctCount / length) * 100 lies just below the exact value k + 1/2:
\* (23 / 40) * 100 is 57.49999999999999
InexactHalves == {<<23, 40>>, <<46, 80>>}

\* Math.round((correctCount / length) * 100) in double arithmetic
RoundedPercentage(correctCount, length) ==
    IF <<correctCount, length>> \in InexactHalves
    THEN RoundDiv(correctCount * 100, length) - 1
    ELSE RoundDiv(correctCount * 100, length)

calculateScore(questions, selected, answers) ==
    LET r == ScoreLoop(questions, selected, answers, 0, 0)
        score == RoundedPercentage(r.correctCount, Len(selected))
    IN  [score |-> score, correctCount |-> r.correctCount,
         totalQuestions |-> Len(selected), percentage |-> score, pool |-> r.pool]

\* one entry of details in getResults, computed on the question objects as
\* calculateScore left them
ResultDetail(questions, selected, answers, i) ==
    LET question == questions[selected[i + 1]]
        userAnswer == answers[i + 1]
    IN  [questionNumber |-> i + 1,
         question |-> selected[i + 1],
         userAnswer |-> userAnswer,
         correctAnswers |-> question.correctAnswers,
         isCorrect |-> IF userAnswer = Null THEN FALSE
                       ELSE isAnswerCorrect(questions, selected, i, userAnswer).result,
         userAnswerText |-> IF userAnswer = Null THEN <<>>
                            ELSE [k \in 1..Len(userAnswer) |->
                                     <<userAnswer[k], question.options[userAnswer[k]]>>],
         correctAnswerTexts |-> [k \in 1..Len(question.correctAnswers) |->
                                    IF question.correctAnswers[k] \in DOMAIN question.options
                                    THEN question.options[question.correctAnswers[k]]
                                    ELSE "undefined"]]

Duration(start, end) ==
    IF end /= NoTime /\ start /= NoTime
    THEN RoundDiv((end - start) * TickMs, 1000)
    ELSE 0

----------------------------------------------------------------------------
(* State machine *)

Init ==
    /\ pool \in Pools
    /\ engine = "none"
    /\ allQuestions = <<>>
    /\ numberOfQuestions = 0
    /\ selectedQuestions = <<>>
    /\ currentIndex = 0
    /\ userAnswers = <<>>
    /\ startTime = NoTime
    /\ endTime = NoTime
    /\ isCompleted = FALSE
    /\ clock = 0
    /\ ret = Returned("none", <<>>, NoVal)
    /\ submitted = FALSE
    /\ processedQuestions = 0
    /\ skippedQuestions = 0
    /\ validationErrors = <<>>
    /\ parsingWarnings = <<>>
    /\ markdownContent = <<(<<>>)>>
    /\ loadingErrors = <<>>
    /\ validationWarnings = <<>>
    /\ appQuestions = <<>>
    /\ Constructed
    /\ NoFetch

\* new QuizEngine(pool, count)
Construct(count) ==
    /\ engine /= "ok"
    /\ LET v == validateInitialQuestions(pool)
           num == Min(count, Len(pool))
       IN  IF v.err /= ""
           THEN /\ engine' = "failed"
                /\ ret' = Threw("constructor", <<count>>, v.err)
                /\ UNCHANGED session
           ELSE /\ engine' = "ok"
                /\ allQuestions' = v.allQuestions
                /\ numberOfQuestions' = num
                /\ \E selected \in selectRandomQuestions(v.allQuestions, num) :
                      /\ selectedQuestions' = selected
                      /\ userAnswers' = NullAnswers(Len(selected))
                /\ currentIndex' = 0
                /\ startTime' = NoTime
                /\ endTime' = NoTime
                /\ isCompleted' = FALSE
                /\ ret' = Returned("constructor", <<count>>, NoVal)
    /\ submitted' = FALSE
    /\ UNCHANGED parsing
    /\ UNCHANGED <<pool, clock>>

GetCurrentQuestion ==
    /\ engine = "ok"
    /\ ret' = Returned("getCurrentQuestion", <<>>,
                       getCurrentQuestion(selectedQuestions, currentIndex))
    /\ UNCHANGED parsing
    /\ UNCHANGED <<pool, engine, session, clock, submitted>>

NextQuestion ==
    /\ engine = "ok"
    /\ IF currentIndex < Len(selectedQuestions) - 1
       THEN /\ currentIndex' = currentIndex + 1
            /\ ret' = Returned("nextQuestion", <<>>,
                               getCurrentQuestion(selectedQuestions, currentIndex + 1))
            /\ UNCHANGED <<isCompleted, endTime>>
       ELSE /\ IF currentIndex = Len(selectedQuestions) - 1
               THEN isCompleted' = TRUE /\ endTime' = clock
               ELSE UNCHANGED <<isCompleted, endTime>>
            /\ ret' = Returned("nextQuestion", <<>>, NoVal)
            /\ UNCHANGED currentIndex
    /\ UNCHANGED parsing
    /\ UNCHANGED <<pool, engine, allQuestions, numberOfQuestions, selectedQuestions,
                   userAnswers, startTime, clock, submitted>>

PreviousQuestion ==
    /\ engine = "ok"
    /\ IF currentIndex > 0
       THEN /\ currentIndex' = currentIndex - 1
            /\ ret' = Returned("previousQuestion", <<>>,
                               getCurrentQuestion(selectedQuestions, currentIndex - 1))
       ELSE /\ ret' = Returned("previousQuestion", <<>>, NoVal)
            /\ UNCHANGED currentIndex
    /\ UNCHANGED parsing
    /\ UNCHANGED <<pool, engine, allQuestions, numberOfQuestions, selectedQuestions,
                   userAnswers, startTime, endTime, isCompleted, clock, submitted>>

SubmitAnswer(selectedAnswer) ==
    /\ engine = "ok"
    /\ LET stateErr == validateQuizState(selectedQuestions, isCompleted) IN
       IF stateErr /= ""
       THEN /\ ret' = Threw("submitAnswer", selectedAnswer, stateErr)
            /\ UNCHANGED <<pool, userAnswers, startTime, submitted>>
       ELSE IF currentIndex >= Len(selectedQuestions)
       THEN /\ ret' = Threw("submitAnswer", selectedAnswer, "IndexOutOfRange")
            /\ UNCHANGED <<pool, userAnswers, startTime, submitted>>
       ELSE
         LET currentQuestion == selectedQuestions[currentIndex + 1]
             formatErr == validateAnswerFormat(selectedAnswer)
             optionErr == validateAnswerForQuestion(selectedAnswer, pool[currentQuestion])
             r == isAnswerCorrect(pool, selectedQuestions, currentIndex, selectedAnswer)
         IN  /\ startTime' = IF startTime = NoTime THEN clock ELSE startTime
             /\ IF formatErr /= ""
                THEN /\ ret' = Threw("submitAnswer", selectedAnswer, formatErr)
                     /\ UNCHANGED <<pool, userAnswers, submitted>>
                ELSE IF optionErr /= ""
                THEN /\ ret' = Threw("submitAnswer", selectedAnswer, optionErr)
                     /\ UNCHANGED <<pool, userAnswers, submitted>>
                ELSE /\ userAnswers' = [userAnswers EXCEPT ![currentIndex + 1] = selectedAnswer]
                     /\ pool' = r.pool
                     /\ submitted' = TRUE
                     /\ ret' = Returned("submitAnswer", selectedAnswer,
                                  [isNull |-> FALSE,
                                   questionIndex |-> currentIndex,
                                   answer |-> selectedAnswer,
                                   isCorrect |-> r.result,
                                   questionId |-> pool[currentQuestion].id])
    /\ UNCHANGED parsing
    /\ UNCHANGED <<engine, allQuestions, numberOfQuestions, selectedQuestions,
                   currentIndex, endTime, isCompleted, clock>>

\* getResults refusing only a session that has not started
GetResults_WhenStarted ==
    /\ engine = "ok"
    /\ IF ~isCompleted /\ startTime = NoTime
       THEN /\ ret' = Threw("getResults", <<>>, "NotCompleted")
            /\ UNCHANGED pool
       ELSE LET scoreData == calculateScore(pool, selectedQuestions, userAnswers) IN
            /\ pool' = scoreData.pool
            /\ ret' = Returned("getResults", <<>>,
                         [isNull |-> FALSE,
                          score |-> scoreData.score,
                          correctCount |-> scoreData.correctCount,
                          totalQuestions |-> scoreData.totalQuestions,
                          percentage |-> scoreData.percentage,
                          details |-> [k \in 1..Len(selectedQuestions) |->
                                          ResultDetail(scoreData.pool, selectedQuestions,
                                                       userAnswers, k - 1)],
                          duration |-> Duration(startTime, endTime),
                          startTime |-> startTime,
                          endTime |-> endTime])
    /\ UNCHANGED parsing
    /\ UNCHANGED <<engine, session, clock, submitted>>

GetResults ==
    /\ engine = "ok"
    /\ IF ~isCompleted
       THEN /\ ret' = Threw("getResults", <<>>, "NotCompleted")
            /\ UNCHANGED pool
       ELSE LET scoreData == calculateScore(pool, selectedQuestions, userAnswers) IN
            /\ pool' = scoreData.pool
            /\ ret' = Returned("getResults", <<>>,
                         [isNull |-> FALSE,
                          score |-> scoreData.score,
                          correctCount |-> scoreData.correctCount,
                          totalQuestions |-> scoreData.totalQuestions,
                          percentage |-> scoreData.percentage,
                          details |-> [k \in 1..Len(selectedQuestions) |->
                                          ResultDetail(scoreData.pool, selectedQuestions,
                                                       userAnswers, k - 1)],
                          duration |-> Duration(startTime, endTime),
                          startTime |-> startTime,
                          endTime |-> endTime])
    /\ UNCHANGED parsing
    /\ UNCHANGED <<engine, session, clock, submitted>>

\* restart drawing the questions again
Restart_Redraw ==
    /\ engine = "ok"
    /\ currentIndex' = 0
    /\ \E selected \in selectRandomQuestions(allQuestions, numberOfQuestions) :
          /\ selectedQuestions' = selected
          /\ userAnswers' = NullAnswers(Len(selected))
    /\ startTime' = NoTime
    /\ endTime' = NoTime
    /\ isCompleted' = FALSE
    /\ submitted' = FALSE
    /\ ret' = Returned("restart", <<>>, NoVal)
    /\ UNCHANGED parsing
    /\ UNCHANGED <<pool, engine, allQuestions, numberOfQuestions, clock>>

Restart ==
    /\ engine = "ok"
    /\ currentIndex' = 0
    /\ userAnswers' = NullAnswers(Len(selectedQuestions))
    /\ startTime' = NoTime
    /\ endTime' = NoTime
    /\ isCompleted' = FALSE
    /\ submitted' = FALSE
    /\ ret' = Returned("restart", <<>>, NoVal)
    /\ UNCHANGED parsing
    /\ UNCHANGED <<pool, engine, allQuestions, numberOfQuestions, selectedQuestions,
                   clock>>

\* startNewQuiz(numberOfQuestions): count is <<>> for null, <<n>> for the number n
StartNewQuiz(count) ==
    /\ engine = "ok"
    /\ LET num == IF count /= <<>> THEN Min(count[1], Len(allQuestions))
                  ELSE numberOfQuestions
       IN  /\ numberOfQuestions' = num
           /\ \E selected \in selectRandomQuestions(allQuestions, num) :
                 /\ selectedQuestions' = selected
                 /\ userAnswers' = NullAnswers(Len(selected))
    /\ currentIndex' = 0
    /\ startTime' = NoTime
    /\ endTime' = NoTime
    /\ isCompleted' = FALSE
    /\ submitted' = FALSE
    /\ ret' = Returned("startNewQuiz", count, NoVal)
    /\ UNCHANGED parsing
    /\ UNCHANGED <<pool, engine, allQuestions, clock>>

\* time passes between two calls
Tick ==
    /\ clock < MaxClock
    /\ clock' = clock + 1
    /\ UNCHANGED parsing
    /\ UNCHANGED <<pool, engine, session, ret, submitted>>

Next ==
    \/ \E count \in Counts : Construct(count)
    \/ GetCurrentQuestion
    \/ NextQuestion
    \/ PreviousQuestion
    \/ \E selectedAnswer \in AnswerInputs : SubmitAnswer(selectedAnswer)
    \/ GetResults
    \/ Restart
    \/ \E count \in CountArgs : StartNewQuiz(count)
    \/ Tick

Spec == Init /\ [][Next]_vars

----------------------------------------------------------------------------
(* Scoring of long sessions: getResults on a completed session in which    *)
(* every question was answered, the first correct ones correctly.          *)

MaxScoreQuestions == 40

InitScore ==
    \E n \in 1..MaxScoreQuestions : \E correct \in 0..n :
        /\ pool = [i \in 1..n |-> QA]
        /\ engine = "ok"
        /\ allQuestions = [i \in 1..n |-> i]
        /\ numberOfQuestions = n
        /\ selectedQuestions = [i \in 1..n |-> i]
        /\ currentIndex = n - 1
        /\ userAnswers = [i \in 1..n |-> IF i <= correct THEN <<"A">> ELSE <<"B">>]
        /\ startTime = 0
        /\ endTime = 0
        /\ isCompleted = TRUE
        /\ clock = 0
        /\ ret = Returned("nextQuestion", <<>>, NoVal)
        /\ submitted = TRUE
        /\ processedQuestions = 0
        /\ skippedQuestions = 0
        /\ validationErrors = <<>>
        /\ parsingWarnings = <<>>
        /\ markdownContent = <<(<<>>)>>
    /\ loadingErrors = <<>>
    /\ validationWarnings = <<>>
    /\ appQuestions = <<>>
    /\ Constructed
    /\ NoFetch

NextScore == GetResults

SpecScore == InitScore /\ [][NextScore]_vars

----------------------------------------------------------------------------
(* MarkdownParser: texts *)

\* A text is the sequence of its characters. A document is the sequence of
\* its lines, the pieces between the "\n" of markdownContent.

Digits == {"0", "1", "2", "3", "4", "5", "6", "7", "8", "9"}

\* the characters \s and trim() take as blank
WhiteSpace == {" ", "\t", "\n"}

Str_Pregunta == <<"#", "#", " ", "P", "r", "e", "g", "u", "n", "t", "a">>
Str_Button == <<"<", "a", "s", "-", "b", "u", "t", "t", "o", "n">>
Str_Message == <<"m", "e", "s", "s", "a", "g", "e", "=", "\"">>
Str_Inquire == <<"i", "n", "q", "u", "i", "r", "e", "=", "\"">>
Str_Bold == <<"*", "*">>
Str_Italic == <<"*">>
Str_Rule == <<"-", "-", "-">>

StartsWith(text, prefix) ==
    /\ Len(text) >= Len(prefix)
    /\ SubSeq(text, 1, Len(prefix)) = prefix

\* first position from `from` on at which pat, a text that is not empty,
\* occurs in text, 0 when none
IndexOf(text, pat, from) ==
    LET hits == { i \in from..(Len(text) - Len(pat) + 1) :
                    text[i] = pat[1] /\ SubSeq(text, i, i + Len(pat) - 1) = pat }
    IN  IF hits = {} THEN 0 ELSE CHOOSE i \in hits : \A j \in hits : i <= j

\* String.prototype.includes
Includes(text, pat) == IndexOf(text, pat, 1) /= 0

RECURSIVE TrimStart(_)
TrimStart(text) ==
    IF text /= <<>> /\ Head(text) \in WhiteSpace THEN TrimStart(Tail(text)) ELSE text

RECURSIVE TrimEnd(_)
TrimEnd(text) ==
    IF text /= <<>> /\ text[Len(text)] \in WhiteSpace
    THEN TrimEnd(SubSeq(text, 1, Len(text) - 1))
    ELSE text

\* String.prototype.trim
Trim(text) == TrimEnd(TrimStart(text))

\* String.prototype.padStart(3, '0')
RECURSIVE PadStart3(_)
PadStart3(text) == IF Len(text) >= 3 THEN text ELSE PadStart3(<<"0">> \o text)

\* lines.join('\n') with a "\n" after every line
RECURSIVE JoinLines(_)
JoinLines(lines) ==
    IF lines = <<>> THEN <<>> ELSE Head(lines) \o <<"\n">> \o JoinLines(Tail(lines))

----------------------------------------------------------------------------
(* MarkdownParser: the documents given to parseQuestions *)

\* a document is made of at most MaxSegments segments
MaxSegments == 2

Heading(number) == Str_Pregunta \o <<" ">> \o number

Blank == <<>>
LongText == <<"W", "h", "i", "c", "h", " ", "i", "s", " ", "i", "t", "?">>
OptionA == <<"A", ".", " ", "x">>
OptionB == <<"B", ".", " ", "y">>
OptionBoldB == <<"*", "*", "B", "*", "*", ".", " ", "*", "*", "y", "*", "*">>

Button(message) == Str_Button \o <<" ">> \o Str_Message \o message \o <<"\"", ">">>

\* a block as in test-questions.md
WellFormed(number, answer) ==
    <<Heading(number), Blank, LongText, Blank, OptionA, OptionBoldB, Blank,
      Button(answer), Blank>>

\* a text of n characters
TextOf(n) == SubSeq([i \in 1..n |-> "a"], 1, n)

OptionLine(letter, text) == <<letter, ".", " ">> \o text

\* a block with the given body and option lines
BlockOf(number, body, optionLines) ==
    <<Heading(number), Blank, body, Blank>> \o optionLines
    \o <<Blank, Button(<<"A">>), Blank>>

\* no option line
NoOptionLine == <<Heading(<<"4">>), Blank, LongText, Blank, Button(<<"A">>), Blank>>

\* a correct answer the options lack, and an inquire attribute that repeats
\* it: <as-button message="C" inquire="CA">
AnswerNotAnOption ==
    <<Heading(<<"5">>), Blank, LongText, Blank, OptionA, OptionB, Blank,
      Str_Button \o <<" ">> \o Str_Message \o <<"C", "\"", " ">>
          \o Str_Inquire \o <<"C", "A", "\"", ">">>,
      Blank>>

\* an option text over maxOptionTextLength
LongOption ==
    BlockOf(<<"1", "4">>, LongText, <<OptionA, OptionB, OptionLine("C", TextOf(501))>>)

\* option lines that start with a blank
IndentedOptions ==
    BlockOf(<<"1", "6">>, LongText, <<(<<" ">> \o OptionA), (<<" ">> \o OptionB)>>)

\* the letter A on two option lines
RepeatedLetter ==
    BlockOf(<<"1", "7">>, LongText, <<OptionA, OptionB, OptionLine("A", <<"z">>)>>)

\* a body whose line starts with an uppercase letter and a blank
LetterInBody ==
    BlockOf(<<"1", "8">>, <<"C", " ", "i", "s", " ", "i", "t", " ", "s", "o", "?">>,
            <<OptionA, OptionB>>)

\* a content under minContentLength: heading 001, body "Text", options
\* "A. x" and "B. y", message "A"
ShortContent == BlockOf(<<"0", "0", "1">>, <<"T", "e", "x", "t">>, <<OptionA, OptionB>>)

\* other segments that break a rule of the parser, and a rule line
RuleBreaking ==
    { ShortContent,
      \* a letter twice in message
      <<Heading(<<"8">>), Blank, LongText, Blank, OptionA, OptionB, Blank,
        Button(<<"A", "A">>), Blank>>,
      \* no empty line after the heading
      <<Heading(<<"6">>), LongText, OptionA, OptionB, Button(<<"A">>), Blank>>,
      \* a heading followed at once by the next one
      <<Heading(<<"7">>), Blank>>,
      \* a rule between blocks
      <<Str_Rule, Blank>>,
      \* content over maxContentLength
      BlockOf(<<"1", "0">>, TextOf(2001), <<OptionA, OptionB>>),
      \* one option, under minOptions
      BlockOf(<<"1", "1">>, LongText, <<OptionA>>),
      \* the required option B is missing
      BlockOf(<<"1", "2">>, LongText, <<OptionA, OptionLine("C", <<"z">>)>>),
      \* nine options, over maxOptions
      BlockOf(<<"1", "3">>, LongText,
              <<OptionA, OptionB, OptionLine("C", <<"z">>), OptionLine("D", <<"z">>),
                OptionLine("E", <<"z">>), OptionLine("F", <<"z">>),
                OptionLine("G", <<"z">>), OptionLine("H", <<"z">>),
                OptionLine("I", <<"z">>)>>),
      \* an option text that is empty once cleaned
      BlockOf(<<"1", "5">>, LongText,
              <<OptionA, OptionB, OptionLine("C", Str_Bold \o Str_Bold)>>) }

Segments ==
    { WellFormed(<<"1">>, <<"A">>), WellFormed(<<"0", "0", "2">>, <<"B", "A">>),
      WellFormed(<<"4", "0">>, <<"A">>),
      NoOptionLine, AnswerNotAnOption, LongOption, IndentedOptions, RepeatedLetter,
      LetterInBody }
    \cup RuleBreaking

\* the segment occurs in the document
Contains(lines, segment) ==
    \E i \in 1..Len(lines) :
        /\ i + Len(segment) - 1 <= Len(lines)
        /\ SubSeq(lines, i, i + Len(segment) - 1) = segment

RECURSIVE DocumentsOf(_)
DocumentsOf(n) ==
    IF n = 0 THEN { <<>> }
    ELSE LET shorter == DocumentsOf(n - 1) IN
         shorter \cup { d \o seg : d \in shorter, seg \in Segments }

\* the lines of the documents: the segments one after another; a document
\* ends with "\n", so its last line is empty
Documents == { d \o <<Blank>> : d \in DocumentsOf(MaxSegments) }
----------------------------------------------------------------------------
(* MarkdownParser: the regular expressions *)

\* The documents above hold "## Pregunta" and "<as-button" only at the start
\* of a line, a whole <as-button> tag on one line, and text after the blank
\* of every option line; the expressions are translated for such documents.

\* "## Pregunta \d+" up to the end of a line
IsHeading(line) ==
    /\ Len(line) >= Len(Str_Pregunta) + 2
    /\ StartsWith(line, Str_Pregunta \o <<" ">>)
    /\ \A k \in (Len(Str_Pregunta) + 2)..Len(line) : line[k] \in Digits

\* questionBlockRegex matches at line i: the heading, "\n\n", and a body
BlockStartsAt(lines, i) ==
    /\ i + 2 <= Len(lines)
    /\ IsHeading(lines[i])
    /\ lines[i + 1] = Blank

\* the lookahead "\n---" or "\n#" holds at the end of the line before `line`
EndsBody(line) == StartsWith(line, Str_Rule) \/ StartsWith(line, <<"#">>)

\* the last line of the lazy body that starts at line k
RECURSIVE BodyEnd(_, _)
BodyEnd(lines, k) ==
    IF k = Len(lines) \/ EndsBody(lines[k + 1]) THEN k ELSE BodyEnd(lines, k + 1)

\* the successive matches of questionBlockRegex.exec from line `from` on,
\* each as the lines of match[0]
RECURSIVE questionBlocks(_, _)
questionBlocks(lines, from) ==
    IF from > Len(lines) THEN <<>>
    ELSE IF ~BlockStartsAt(lines, from) THEN questionBlocks(lines, from + 1)
    ELSE IF StartsWith(lines[from + 2], Str_Pregunta)
         \* the lookahead "## Pregunta" holds right after "\n\n": empty body
         THEN <<(<<lines[from], Blank, Blank>>)>> \o questionBlocks(lines, from + 2)
    ELSE LET last == BodyEnd(lines, from + 2) IN
         <<SubSeq(lines, from, last)>> \o questionBlocks(lines, last + 1)

\* where the letter of an option line stands: after an optional "**"
LetterAt(line) == IF StartsWith(line, Str_Bold) THEN 3 ELSE 1

\* the position after "(?:\*\*)?[A-Z](?:\*\*)?" at the start of line, 0 when
\* the line does not start so
AfterLetter(line) ==
    LET p == LetterAt(line) IN
    IF p > Len(line) \/ line[p] \notin UpperCase THEN 0
    ELSE IF Len(line) >= p + 2 /\ SubSeq(line, p + 1, p + 2) = Str_Bold THEN p + 3
    ELSE p + 1

\* /^(?:\*\*)?[A-Z](?:\*\*)?\./ of extractQuestionContent
IsOptionLine(line) ==
    LET q == AfterLetter(line) IN
    q /= 0 /\ q <= Len(line) /\ line[q] = "."

\* the first position from p on whose character is not in chars
RECURSIVE SkipWhile(_, _, _)
SkipWhile(line, p, chars) ==
    IF p <= Len(line) /\ line[p] \in chars THEN SkipWhile(line, p + 1, chars) ELSE p

\* optionRegex on one line: the letter and match[2], or no match
OptionMatch(line) ==
    LET q == AfterLetter(line)
        d == SkipWhile(line, q, {"."})
        t == SkipWhile(line, d, WhiteSpace)
    IN  IF q /= 0 /\ t > d /\ t <= Len(line)
        THEN [matches |-> TRUE, letter |-> line[LetterAt(line)],
              text |-> SubSeq(line, t, Len(line))]
        ELSE [matches |-> FALSE]

\* text.replace(/mark(.*?)mark/g, '$1')
RECURSIVE RemoveMarks(_, _)
RemoveMarks(text, mark) ==
    LET a == IndexOf(text, mark, 1)
        b == IF a = 0 THEN 0 ELSE IndexOf(text, mark, a + Len(mark))
    IN  IF b = 0 THEN text
        ELSE SubSeq(text, 1, a - 1) \o SubSeq(text, a + Len(mark), b - 1)
             \o RemoveMarks(SubSeq(text, b + Len(mark), Len(text)), mark)

cleanOptionText(text) == Trim(RemoveMarks(RemoveMarks(text, Str_Bold), Str_Italic))

\* /<as-button[^>]*attr([^"]+)"[^>]*>/ on one line, attr ending with the
\* opening quote: the positions where attr can start after "<as-button"
AttributeStarts(line, attr) ==
    LET a == IndexOf(line, Str_Button, 1) IN
    IF a = 0 THEN {}
    ELSE { b \in (a + Len(Str_Button))..Len(line) :
             LET v == b + Len(attr)
                 e == IndexOf(line, <<"\"">>, v)
             IN  /\ v - 1 <= Len(line)
                 /\ SubSeq(line, b, v - 1) = attr
                 /\ \A k \in (a + Len(Str_Button))..(b - 1) : line[k] /= ">"
                 /\ e > v
                 /\ IndexOf(line, <<">">>, e + 1) /= 0 }

HasAttribute(line, attr) == AttributeStarts(line, attr) /= {}

\* match[1]: [^>]* is greedy, so attr starts as far right as it can
AttributeValue(line, attr) ==
    LET starts == AttributeStarts(line, attr)
        b == CHOOSE x \in starts : \A y \in starts : y <= x
        v == b + Len(attr)
    IN  SubSeq(line, v, IndexOf(line, <<"\"">>, v) - 1)

----------------------------------------------------------------------------
(* MarkdownParser: extraction *)

\* the lines extractQuestionContent keeps, from lines[2] (0-based) on
RECURSIVE ContentLines(_, _)
ContentLines(block, i) ==
    IF i > Len(block) \/ IsOptionLine(block[i]) \/ Includes(block[i], Str_Button)
    THEN <<>>
    ELSE <<block[i]>> \o ContentLines(block, i + 1)

extractQuestionContent(block) == Trim(JoinLines(ContentLines(block, 3)))

\* options[letter] = optionText: a known letter keeps its place among the keys
SetOption(options, letter, text) ==
    IF \E k \in 1..Len(options) : options[k].letter = letter
    THEN [k \in 1..Len(options) |->
            IF options[k].letter = letter THEN [letter |-> letter, text |-> text]
            ELSE options[k]]
    ELSE Append(options, [letter |-> letter, text |-> text])

\* extractAnswers: the options as the sequence of their keys with the texts
RECURSIVE extractAnswers(_, _, _)
extractAnswers(block, i, options) ==
    IF i > Len(block) THEN options
    ELSE LET m == OptionMatch(block[i]) IN
         IF m.matches
         THEN extractAnswers(block, i + 1,
                             SetOption(options, m.letter, cleanOptionText(Trim(m.text))))
         ELSE extractAnswers(block, i + 1, options)

\* the first line of the block on which the expression for attr matches
RECURSIVE AttributeOf(_, _, _)
AttributeOf(block, i, attr) ==
    IF i > Len(block) THEN <<>>
    ELSE IF HasAttribute(block[i], attr) THEN AttributeValue(block[i], attr)
    ELSE AttributeOf(block, i + 1, attr)

\* the upper-case letters of value pushed onto answers
RECURSIVE PushLetters(_, _, _)
PushLetters(answers, value, unique) ==
    IF value = <<>> THEN answers
    ELSE LET char == Head(value) IN
         IF char \in UpperCase /\ (unique => char \notin Range(answers))
         THEN PushLetters(Append(answers, char), Tail(value), unique)
         ELSE PushLetters(answers, Tail(value), unique)

extractCorrectAnswer(block) ==
    PushLetters(PushLetters(<<>>, AttributeOf(block, 1, Str_Message), FALSE),
                AttributeOf(block, 1, Str_Inquire), TRUE)

\* questionBlock.length: the lines and the "\n" between them
blockLength(block) == Len(JoinLines(block)) - 1

\* an extraction that numbers the records by their place among the blocks
extractQuestion_Renumbered(block, questionIndex, now) ==
    LET questionNumber == SubSeq(block[1], Len(Str_Pregunta) + 2, Len(block[1]))
        questionContent == extractQuestionContent(block)
        options == extractAnswers(block, 1, <<>>)
        correctAnswers == extractCorrectAnswer(block)
    IN  IF questionContent = <<>> THEN [thrown |-> "NoContent"]
        ELSE IF options = <<>> THEN [thrown |-> "NoOptions"]
        ELSE IF correctAnswers = <<>> THEN [thrown |-> "NoCorrectAnswers"]
        ELSE [thrown |-> "",
              questionData |-> [id |-> PadStart3(<<(<<"0", "1", "2", "3", "4", "5", "6", "7", "8", "9">>)[questionIndex + 1]>>),
                                title |-> questionNumber,
                                content |-> questionContent,
                                options |-> options,
                                correctAnswers |-> correctAnswers,
                                rawBlock |-> block,
                                extractionMetadata |->
                                    [questionIndex |-> questionIndex,
                                     blockLength |-> blockLength(block),
                                     timestamp |-> now,
                                     optionCount |-> Len(options),
                                     correctAnswerCount |-> Len(correctAnswers),
                                     contentLength |-> Len(questionContent)]]]

\* extractQuestion: the question data, or the error thrown; new Date() gives
\* the time `now`, kept as the reading of the clock
extractQuestion(block, questionIndex, now) ==
    LET questionNumber == SubSeq(block[1], Len(Str_Pregunta) + 2, Len(block[1]))
        questionContent == extractQuestionContent(block)
        options == extractAnswers(block, 1, <<>>)
        correctAnswers == extractCorrectAnswer(block)
    IN  IF questionContent = <<>> THEN [thrown |-> "NoContent"]
        ELSE IF options = <<>> THEN [thrown |-> "NoOptions"]
        ELSE IF correctAnswers = <<>> THEN [thrown |-> "NoCorrectAnswers"]
        ELSE [thrown |-> "",
              questionData |-> [id |-> PadStart3(questionNumber),
                                title |-> questionNumber,
                                content |-> questionContent,
                                options |-> options,
                                correctAnswers |-> correctAnswers,
                                rawBlock |-> block,
                                extractionMetadata |->
                                    [questionIndex |-> questionIndex,
                                     blockLength |-> blockLength(block),
                                     timestamp |-> now,
                                     optionCount |-> Len(options),
                                     correctAnswerCount |-> Len(correctAnswers),
                                     contentLength |-> Len(questionContent)]]]
----------------------------------------------------------------------------
(* MarkdownParser: validation *)

\* this.validationRules
minContentLength == 10
maxContentLength == 2000
minOptions == 2
maxOptions == 8
requiredOptionLetters == <<"A", "B">>
maxOptionTextLength == 500

\* truthiness of options[letter]
OptionPresent(options, letter) ==
    \E k \in 1..Len(options) : options[k].letter = letter /\ options[k].text /= <<>>

\* each validate... gives the messages it adds with addValidationError

validateBasicStructure(questionData) ==
    IF questionData.id = <<>> THEN <<"NoId">>
    ELSE IF questionData.title = <<>> THEN <<"NoTitle">>
    ELSE IF questionData.content = <<>> THEN <<"NoContent">>
    ELSE <<>>

validateQuestionContent(questionData) ==
    IF Len(questionData.content) < minContentLength THEN <<"ContentTooShort">>
    ELSE IF Len(questionData.content) > maxContentLength THEN <<"ContentTooLong">>
    ELSE IF Trim(questionData.content) = <<>> THEN <<"ContentEmpty">>
    ELSE <<>>

\* an option check without the limit on the length of the text
validateSingleOption_AnyLength(option) ==
    IF option.letter \notin UpperCase THEN <<"OptionLetter">>
    ELSE IF option.text = <<>> THEN <<"OptionTextMissing">>
    ELSE IF Trim(option.text) = <<>> THEN <<"OptionTextEmpty">>
    ELSE <<>>

validateSingleOption(option) ==
    IF option.letter \notin UpperCase THEN <<"OptionLetter">>
    ELSE IF option.text = <<>> THEN <<"OptionTextMissing">>
    ELSE IF Trim(option.text) = <<>> THEN <<"OptionTextEmpty">>
    ELSE IF Len(option.text) > maxOptionTextLength THEN <<"OptionTextTooLong">>
    ELSE <<>>

\* the message of the first option that fails validateSingleOption
RECURSIVE validateOptionsFrom(_, _)
validateOptionsFrom(options, k) ==
    IF k > Len(options) THEN <<>>
    ELSE IF validateSingleOption(options[k]) /= <<>> THEN validateSingleOption(options[k])
    ELSE validateOptionsFrom(options, k + 1)

validateQuestionOptions(questionData) ==
    LET options == questionData.options IN
    IF Len(options) < minOptions THEN <<"TooFewOptions">>
    ELSE IF Len(options) > maxOptions THEN <<"TooManyOptions">>
    ELSE IF \E r \in 1..Len(requiredOptionLetters) :
               ~OptionPresent(options, requiredOptionLetters[r])
         THEN <<"RequiredOptionMissing">>
    ELSE validateOptionsFrom(options, 1)

validateCorrectAnswers(questionData) ==
    LET correctAnswers == questionData.correctAnswers IN
    IF correctAnswers = <<>> THEN <<"NoCorrectAnswers">>
    ELSE IF \E k \in 1..Len(correctAnswers) : correctAnswers[k] \notin UpperCase
         THEN <<"InvalidCorrectAnswer">>
    ELSE IF Cardinality(Range(correctAnswers)) /= Len(correctAnswers)
         THEN <<"DuplicateCorrectAnswers">>
    ELSE <<>>

\* a consistency check that finds nothing
validateAnswerConsistency_Nothing(questionData) == <<>>

validateAnswerConsistency(questionData) ==
    IF \E k \in 1..Len(questionData.correctAnswers) :
          ~OptionPresent(questionData.options, questionData.correctAnswers[k])
    THEN <<"AnswerNotAnOption">>
    ELSE <<>>

\* validateQuestion: this.validationErrors after it (it empties the list
\* first); the question is valid when none was added
validateQuestion(questionData) ==
    validateBasicStructure(questionData)
    \o validateQuestionContent(questionData)
    \o validateQuestionOptions(questionData)
    \o validateCorrectAnswers(questionData)
    \o validateAnswerConsistency(questionData)

\* validateMarkdownContent: content.trim() is not empty and
\* questionBlockRegex.test(content)
validateMarkdownContent(lines) ==
    /\ Trim(JoinLines(lines)) /= <<>>
    /\ questionBlocks(lines, 1) /= <<>>

----------------------------------------------------------------------------
(* MarkdownParser: parseQuestions *)

\* resetParsingState
ResetState ==
    [questions |-> <<>>, processedQuestions |-> 0, skippedQuestions |-> 0,
     validationErrors |-> <<>>, parsingWarnings |-> <<>>]

\* one turn of the loop that omits to count a block whose extraction threw
ProcessBlock_ThrowUncounted(st, block, questionIndex, now) ==
    CHOOSE after \in
        { IF extracted.thrown /= ""
          THEN [st EXCEPT !.validationErrors = @ \o <<extracted.thrown, "BlockFailed">>]
          ELSE CHOOSE valid \in
                 { IF errors = <<>>
                   THEN [st EXCEPT !.questions = Append(@, extracted.questionData),
                                   !.processedQuestions = @ + 1,
                                   !.validationErrors = <<>>]
                   ELSE [st EXCEPT !.skippedQuestions = @ + 1,
                                   !.validationErrors = errors,
                                   !.parsingWarnings =
                                       @ \o <<"ValidationFailed", "BlockOmitted">>]
                   : errors \in {validateQuestion(extracted.questionData)} } : TRUE
          : extracted \in {extractQuestion(block, questionIndex, now)} } : TRUE

\* one turn of the loop over the blocks: the block is extracted and
\* validated, then pushed and counted as processed, or counted as skipped;
\* log('error') and log('warn') store their message
ProcessBlock(st, block, questionIndex, now) ==
    CHOOSE after \in
        { IF extracted.thrown /= ""
          THEN [st EXCEPT !.skippedQuestions = @ + 1,
                          !.validationErrors = @ \o <<extracted.thrown, "BlockFailed">>]
          ELSE CHOOSE valid \in
                 { IF errors = <<>>
                   THEN [st EXCEPT !.questions = Append(@, extracted.questionData),
                                   !.processedQuestions = @ + 1,
                                   !.validationErrors = <<>>]
                   ELSE [st EXCEPT !.skippedQuestions = @ + 1,
                                   !.validationErrors = errors,
                                   !.parsingWarnings =
                                       @ \o <<"ValidationFailed", "BlockOmitted">>]
                   : errors \in {validateQuestion(extracted.questionData)} } : TRUE
          : extracted \in {extractQuestion(block, questionIndex, now)} } : TRUE

RECURSIVE BlockLoop(_, _, _, _)
BlockLoop(st, blocks, k, now) ==
    IF k > Len(blocks) THEN st
    ELSE CHOOSE last \in
           { BlockLoop(after, blocks, k + 1, now)
             : after \in {ProcessBlock(st, blocks[k], k, now)} } : TRUE

\* logParsingResults
logParsingResults(st) ==
    [st EXCEPT !.parsingWarnings =
                   IF st.skippedQuestions > 0 THEN @ \o <<"SomeOmitted">> ELSE @,
               !.validationErrors =
                   IF Len(st.questions) = 0 THEN @ \o <<"NoneValid">> ELSE @]

\* a parse that gives up when a block was skipped
parseQuestions_NoSkip(lines, now) ==
    IF ~validateMarkdownContent(lines)
    THEN [state |-> [ResetState EXCEPT !.validationErrors =
                         IF Trim(JoinLines(lines)) = <<>> THEN <<"EmptyContent">>
                         ELSE <<"NoBlocks">>],
          thrown |-> "InvalidContent"]
    ELSE CHOOSE parsed \in
           { [state |-> st,
              thrown |-> IF Len(st.questions) = 0 \/ st.skippedQuestions > 0
                         THEN "NoValidQuestions" ELSE ""]
             : st \in { logParsingResults(looped)
                        : looped \in { BlockLoop(ResetState, blocks, 1, now)
                                       : blocks \in {questionBlocks(lines, 1)} } } } : TRUE

\* a parse that returns the list of questions even when it is empty
parseQuestions_EmptyPool(lines, now) ==
    IF ~validateMarkdownContent(lines)
    THEN [state |-> [ResetState EXCEPT !.validationErrors =
                         IF Trim(JoinLines(lines)) = <<>> THEN <<"EmptyContent">>
                         ELSE <<"NoBlocks">>],
          thrown |-> "InvalidContent"]
    ELSE CHOOSE parsed \in
           { [state |-> st, thrown |-> ""]
             : st \in { logParsingResults(looped)
                        : looped \in { BlockLoop(ResetState, blocks, 1, now)
                                       : blocks \in {questionBlocks(lines, 1)} } } } : TRUE

\* parseQuestions(markdownContent): the parser's state after the call, the
\* error thrown ("" when none) and the questions returned
parseQuestions(lines, now) ==
    IF ~validateMarkdownContent(lines)
    THEN [state |-> [ResetState EXCEPT !.validationErrors =
                         IF Trim(JoinLines(lines)) = <<>> THEN <<"EmptyContent">>
                         ELSE <<"NoBlocks">>],
          thrown |-> "InvalidContent"]
    ELSE CHOOSE parsed \in
           { [state |-> st,
              thrown |-> IF Len(st.questions) = 0 THEN "NoValidQuestions" ELSE ""]
             : st \in { logParsingResults(looped)
                        : looped \in { BlockLoop(ResetState, blocks, 1, now)
                                       : blocks \in {questionBlocks(lines, 1)} } } } : TRUE

\* this.questions = this.markdownParser.parseQuestions(markdownContent)
ParseQuestions ==
    /\ \E parsed \in {parseQuestions(markdownContent, clock)} :
          /\ processedQuestions' = parsed.state.processedQuestions
          /\ skippedQuestions' = parsed.state.skippedQuestions
          /\ validationErrors' = parsed.state.validationErrors
          /\ parsingWarnings' = parsed.state.parsingWarnings
          /\ ret' = IF parsed.thrown /= ""
                    THEN Threw("parseQuestions", <<>>, parsed.thrown)
                    ELSE Returned("parseQuestions", <<>>,
                                  [isNull |-> FALSE, questions |-> parsed.state.questions])
    /\ UNCHANGED <<pool, engine, session, clock, submitted, markdownContent,
                   loadingErrors, validationWarnings, appQuestions>>
    /\ UNCHANGED <<application, retry>>

\* markdownParser.getParsingStats(); successRate in tenths of a percent
GetParsingStats ==
    /\ ret' = Returned("getParsingStats", <<>>,
                 [isNull |-> FALSE,
                  processedQuestions |-> processedQuestions,
                  skippedQuestions |-> skippedQuestions,
                  validationErrors |-> Len(validationErrors),
                  parsingWarnings |-> Len(parsingWarnings),
                  successRate |->
                      IF processedQuestions + skippedQuestions > 0
                      THEN RoundDiv(processedQuestions * 1000,
                                    processedQuestions + skippedQuestions)
                      ELSE 0])
    /\ UNCHANGED parsing
    /\ UNCHANGED <<pool, engine, session, clock, submitted>>

----------------------------------------------------------------------------
(* FileHandler: validateFileContent and loadMarkdownFile *)

\* this.validationRules
minFileSize == 100
maxFileSize == 10 * 1024 * 1024

\* validateBasicContent: the message of the error it throws, "" when none
validateBasicContent(lines) ==
    LET content == JoinLines(lines) IN
    IF content = <<>> THEN "NoContent"
    ELSE IF Trim(content) = <<>> THEN "EmptyFile"
    ELSE IF Len(Trim(content)) < minFileSize THEN "ContentTooShort"
    ELSE IF Len(content) > maxFileSize THEN "ContentTooLong"
    ELSE ""

\* validateContentStructure
validateContentStructure(lines) ==
    IF ~\E k \in 1..Len(lines) : StartsWith(Trim(lines[k]), <<"#", "#">>)
    THEN "NoHeaders"
    ELSE IF ~\E k \in 1..Len(lines) :
                Trim(lines[k]) /= <<>> /\ ~StartsWith(Trim(lines[k]), <<"#">>)
         THEN "OnlyHeaders"
    ELSE ""

\* requiredPatterns[0], /##\s+Pregunta\s+\d+/i, in a line
FileHeadingIn(line) ==
    \E i \in { h \in 1..(Len(line) - 1) : line[h] = "#" /\ line[h + 1] = "#" } :
        LET word == SubSeq(Str_Pregunta, 4, Len(Str_Pregunta))
            p == SkipWhile(line, i + 2, WhiteSpace)
            q == p + Len(word)
            r == SkipWhile(line, q, WhiteSpace)
        IN  /\ p > i + 2
            /\ q - 1 <= Len(line)
            /\ SubSeq(line, p, q - 1) = word
            /\ r > q
            /\ r <= Len(line)
            /\ line[r] \in Digits

\* requiredPatterns[1], /<as-button[^>]*message="[^"]*"[^>]*>/i, in a line:
\* as correctAnswerRegex, but the value may be empty
FileButtonIn(line) ==
    LET a == IndexOf(line, Str_Button, 1) IN
    /\ a /= 0
    /\ \E b \in (a + Len(Str_Button))..Len(line) :
          LET v == b + Len(Str_Message)
              e == IndexOf(line, <<"\"">>, v)
          IN  /\ v - 1 <= Len(line)
              /\ SubSeq(line, b, v - 1) = Str_Message
              /\ \A k \in (a + Len(Str_Button))..(b - 1) : line[k] /= ">"
              /\ e >= v
              /\ IndexOf(line, <<">">>, e + 1) /= 0

\* requiredPatterns[2], /^\s*\*?\*?[A-D]\*?\*?\.\s+.+$/m, on a line
FileOptionLine(line) ==
    LET s == SkipWhile(line, 1, WhiteSpace)
        l == SkipWhile(line, s, {"*"})
        d == SkipWhile(line, l + 1, {"*"})
    IN  /\ l - s <= 2
        /\ l <= Len(line)
        /\ line[l] \in {"A", "B", "C", "D"}
        /\ d - (l + 1) <= 2
        /\ d + 2 <= Len(line)
        /\ line[d] = "."
        /\ line[d + 1] \in WhiteSpace

\* validateRequiredPatterns: the error thrown and the warnings added;
\* content.match(pattern) of a pattern without the g flag and without a
\* group has length 1, so every count is 1
validateRequiredPatterns(lines) ==
    LET questionCount == 1
        buttonCount == 1
        optionCount == 1
    IN  IF ~\E k \in 1..Len(lines) : FileHeadingIn(lines[k])
        THEN [thrown |-> "NoQuestions", warnings |-> <<>>]
        ELSE IF ~\E k \in 1..Len(lines) : FileButtonIn(lines[k])
        THEN [thrown |-> "NoButtons", warnings |-> <<>>]
        ELSE IF ~\E k \in 1..Len(lines) : FileOptionLine(lines[k])
        THEN [thrown |-> "NoOptions", warnings |-> <<>>]
        ELSE [thrown |-> "",
              warnings |->
                  (IF questionCount > buttonCount THEN <<"FewerButtons">> ELSE <<>>)
                  \o (IF questionCount * 2 > optionCount THEN <<"FewOptions">> ELSE <<>>)]

\* parseInt of a text of digits
RECURSIVE parseInt(_)
parseInt(text) ==
    IF text = <<>> THEN 0
    ELSE 10 * parseInt(SubSeq(text, 1, Len(text) - 1))
         + (CHOOSE v \in 0..9 :
               <<"0", "1", "2", "3", "4", "5", "6", "7", "8", "9">>[v + 1] = text[Len(text)])

\* the numbers of the matches of /## Pregunta (\d+)/g, in document order
RECURSIVE questionNumbers(_, _)
questionNumbers(lines, k) ==
    IF k > Len(lines) THEN <<>>
    ELSE LET from == Len(Str_Pregunta) + 2
             to == SkipWhile(lines[k], from, Digits)
         IN  (IF StartsWith(lines[k], Str_Pregunta \o <<" ">>) /\ to > from
              THEN <<parseInt(SubSeq(lines[k], from, to - 1))>> ELSE <<>>)
             \o questionNumbers(lines, k + 1)

RECURSIVE InsertNumber(_, _)
InsertNumber(n, s) ==
    IF s = <<>> THEN <<n>>
    ELSE IF n < Head(s) THEN <<n>> \o s
    ELSE <<Head(s)>> \o InsertNumber(n, Tail(s))

\* [...questionNumbers].sort((a, b) => a - b)
RECURSIVE sortedNumbers(_)
sortedNumbers(s) == IF s = <<>> THEN <<>> ELSE InsertNumber(Head(s), sortedNumbers(Tail(s)))

\* the issues of the loop over sortedNumbers, from index i on
RECURSIVE numberingIssues(_, _)
numberingIssues(sorted, i) ==
    IF i > Len(sorted) THEN <<>>
    ELSE (IF sorted[i] = sorted[i - 1] THEN <<"DuplicateNumber">> ELSE <<>>)
         \o (IF sorted[i] - sorted[i - 1] > 1 THEN <<"NumberGap">> ELSE <<>>)
         \o numberingIssues(sorted, i + 1)

\* /\n\s*\n\s*\n\s*\n/: three blank lines in a row, each ended by "\n"
ExcessiveWhitespace(lines) ==
    \E i \in 1..(Len(lines) - 4) :
        \A k \in (i + 1)..(i + 3) : Trim(lines[k]) = <<>>

\* validateContentQuality: the warnings it adds (it throws nothing); the
\* documents hold no tag but <as-button>, so no tag is reported
validateContentQuality(lines) ==
    (IF ExcessiveWhitespace(lines) THEN <<"ExcessiveWhitespace">> ELSE <<>>)
    \o numberingIssues(sortedNumbers(questionNumbers(lines, 1)), 2)

\* a validation that refuses a document whose numbering has an issue
validateFileContent_StrictNumbers(lines) ==
    LET basic == validateBasicContent(lines)
        structure == validateContentStructure(lines)
        patterns == validateRequiredPatterns(lines)
        quality == validateContentQuality(lines)
    IN  IF basic /= "" THEN [thrown |-> basic, warnings |-> <<>>]
        ELSE IF structure /= "" THEN [thrown |-> structure, warnings |-> <<>>]
        ELSE IF patterns.thrown /= "" THEN patterns
        ELSE [thrown |-> IF quality /= <<>> THEN "Numbering" ELSE "",
              warnings |-> patterns.warnings \o quality]

\* validateFileContent: the error thrown by the first check that fails, and
\* the warnings added up to there
validateFileContent(lines) ==
    LET basic == validateBasicContent(lines)
        structure == validateContentStructure(lines)
        patterns == validateRequiredPatterns(lines)
        quality == validateContentQuality(lines)
    IN  IF basic /= "" THEN [thrown |-> basic, warnings |-> <<>>]
        ELSE IF structure /= "" THEN [thrown |-> structure, warnings |-> <<>>]
        ELSE IF patterns.thrown /= "" THEN patterns
        ELSE [thrown |-> "", warnings |-> patterns.warnings \o quality]

\* loadMarkdownFile(filePath) when the fetch gives the document (fetched) or
\* fails: the error thrown and the lists of the handler after the call;
\* log('error') in validateFileContent and in loadMarkdownFile store their
\* message
loadMarkdownFile(lines, fetched) ==
    IF ~fetched
    THEN [thrown |-> "FetchFailed", loadingErrors |-> <<"LoadFailed">>,
          validationWarnings |-> <<>>]
    ELSE CHOOSE loaded \in
           { [thrown |-> checked.thrown,
              loadingErrors |-> IF checked.thrown /= ""
                                THEN <<"ValidationFailed", "LoadFailed">> ELSE <<>>,
              validationWarnings |-> checked.warnings]
             : checked \in {validateFileContent(lines)} } : TRUE

----------------------------------------------------------------------------
(* QuizApp: loadQuestions *)

\* the body of try in loadQuestions, and of the try of an alternative path:
\* the file is loaded, then parsed; `parser` is the state of the parser
\* before it
LoadAndParse(lines, fetched, parser, now) ==
    CHOOSE done \in
        { IF file.thrown /= ""
          THEN [thrown |-> file.thrown, file |-> file, parser |-> parser]
          ELSE CHOOSE both \in
                 { [thrown |-> parsed.thrown, file |-> file, parser |-> parsed.state]
                   : parsed \in {parseQuestions(lines, now)} } : TRUE
          : file \in {loadMarkdownFile(lines, fetched)} } : TRUE

\* the state of the parser
ParserState ==
    [questions |-> <<>>, processedQuestions |-> processedQuestions,
     skippedQuestions |-> skippedQuestions, validationErrors |-> validationErrors,
     parsingWarnings |-> parsingWarnings]

\* loadQuestions() of the file Quiz.md, whose document is markdownContent.
\* When the try throws, attemptErrorRecovery loads the alternative paths:
\* './Quiz.md' names the same file; '../Quiz.md' is refused by
\* validateFilePath; 'data/Quiz.md' and 'assets/Quiz.md' are files that do
\* not exist. No message of an error holds 'validation' or 'Invalid', so
\* the load with enableDetailedLogging off is not tried.
LoadQuestions ==
    /\ \E fetched \in BOOLEAN :
         \E first \in {LoadAndParse(markdownContent, fetched, ParserState, clock)} :
            IF first.thrown = ""
            THEN /\ processedQuestions' = first.parser.processedQuestions
                 /\ skippedQuestions' = first.parser.skippedQuestions
                 /\ validationErrors' = first.parser.validationErrors
                 /\ parsingWarnings' = first.parser.parsingWarnings
                 /\ appQuestions' = first.parser.questions
                 /\ loadingErrors' = first.file.loadingErrors
                 /\ validationWarnings' = first.file.validationWarnings
                 /\ ret' = Returned("loadQuestions", <<>>, NoVal)
            ELSE \E fetchedAgain \in BOOLEAN :
                 \E second \in {LoadAndParse(markdownContent, fetchedAgain,
                                              first.parser, clock)} :
                    /\ processedQuestions' = second.parser.processedQuestions
                    /\ skippedQuestions' = second.parser.skippedQuestions
                    /\ validationErrors' = second.parser.validationErrors
                    /\ parsingWarnings' = second.parser.parsingWarnings
                    /\ IF second.thrown = ""
                       THEN /\ appQuestions' = second.parser.questions
                            /\ loadingErrors' = second.file.loadingErrors
                            /\ validationWarnings' = second.file.validationWarnings
                            /\ ret' = Returned("loadQuestions", <<>>, NoVal)
                       ELSE /\ appQuestions' = appQuestions
                            /\ loadingErrors' = <<"LoadFailed">>
                            /\ validationWarnings' = <<>>
                            /\ ret' = Threw("loadQuestions", <<>>, first.thrown)
    /\ UNCHANGED <<pool, engine, session, clock, submitted, markdownContent>>
    /\ UNCHANGED <<application, retry>>

\* a parser and a file handler as QuizApp creates them, the document of the
\* file, and no session
InitParse ==
    /\ markdownContent \in Documents
    /\ loadingErrors = <<>>
    /\ validationWarnings = <<>>
    /\ appQuestions = <<>>
    /\ Constructed
    /\ NoFetch
    /\ processedQuestions = 0
    /\ skippedQuestions = 0
    /\ validationErrors = <<>>
    /\ parsingWarnings = <<>>
    /\ pool = <<>>
    /\ engine = "none"
    /\ allQuestions = <<>>
    /\ numberOfQuestions = 0
    /\ selectedQuestions = <<>>
    /\ currentIndex = 0
    /\ userAnswers = <<>>
    /\ startTime = NoTime
    /\ endTime = NoTime
    /\ isCompleted = FALSE
    /\ clock = 0
    /\ ret = Returned("none", <<>>, NoVal)
    /\ submitted = FALSE

NextParse ==
    \/ ParseQuestions
    \/ GetParsingStats
    \/ Tick

SpecParse == InitParse /\ [][NextParse]_vars

\* the application loads its file
NextLoad == LoadQuestions

SpecLoad == InitParse /\ [][NextLoad]_vars

----------------------------------------------------------------------------
(* Properties of the session engine *)

NoDuplicates(s) == \A i, j \in 1..Len(s) : s[i] = s[j] => i = j

ValidEntries(questions) ==
    {i \in 1..Len(questions) : validateQuestionStructure(questions[i])}

\* the letters of a string, as a set
Letters(s) == Range(s)

CurrentCorrectAnswers(index) == pool[selectedQuestions[index + 1]].correctAnswers

\* C1: a submitAnswer that succeeds returns isCorrect = TRUE exactly when the
\* set of submitted letters equals the set of correctAnswers of the question
\* it answered.
C1_ExactSetEquality ==
    (engine = "ok" /\ ret.op = "submitAnswer" /\ ret.err = "") =>
        (ret.val.isCorrect <=>
            Letters(ret.val.answer) = Letters(CurrentCorrectAnswers(ret.val.questionIndex)))

\* the count the last constructor or startNewQuiz call asked for: its
\* argument, or the count in force when it has none
RequestedCount == IF ret.arg /= <<>> THEN ret.arg[1] ELSE numberOfQuestions

C3_CountClamped ==
    engine = "ok" =>
        /\ 1 <= Len(selectedQuestions)
        /\ Len(selectedQuestions) <= Len(pool)

\* C4: construction over a pool without a structurally valid question throws
\* and yields no session, so no session with an empty subset comes from it.
C4_EmptyPoolFails ==
    /\ ValidEntries(pool) = {} => engine /= "ok"
    /\ engine = "failed" =>
          /\ ret.op = "constructor"
          /\ ret.err = "EmptyPool"
          /\ ValidEntries(pool) = {}

\* construction was attempted over a non-empty pool of malformed questions
C4_Witness ==
    /\ engine = "failed"
    /\ Len(pool) > 0
    /\ ret.op = "constructor"

\* C5: the session is completed only if a submitAnswer has succeeded earlier
\* in the same run.
C5_CompletedOnlyAfterSubmit ==
    (engine = "ok" /\ isCompleted) => submitted

\* C6: startTime is null as long as no submitAnswer has succeeded in the run,
\* and once set it changes only by restart or startNewQuiz.
C6_StartTimeStamp ==
    /\ [](~submitted => startTime = NoTime)
    /\ [][(startTime /= NoTime /\ ~Restart
              /\ ~(\E count \in CountArgs : StartNewQuiz(count)))
            => startTime' = startTime]_vars

\* C7: when the session is not completed and more questions remain,
\* nextQuestion moves currentIndex forward by one, leaves the session not
\* completed and the answers as they were, and returns the view of the new
\* current question, with isLast exactly at the last position.
C7_AdvanceMoreRemain ==
    [][(/\ engine = "ok"
        /\ ~isCompleted
        /\ currentIndex < Len(selectedQuestions) - 1
        /\ NextQuestion)
       => /\ currentIndex' = currentIndex + 1
          /\ ~isCompleted'
          /\ userAnswers' = userAnswers
          /\ ret'.err = ""
          /\ ret'.val.isNull = FALSE
          /\ ret'.val.question = selectedQuestions[currentIndex' + 1]
          /\ ret'.val.questionNumber = currentIndex' + 1
          /\ ret'.val.totalQuestions = Len(selectedQuestions)
          /\ (ret'.val.isLast <=> currentIndex' = Len(selectedQuestions) - 1)]_vars

\* nextQuestion has returned the view of a question that is not the last one
C7_Witness ==
    /\ engine = "ok"
    /\ ret.op = "nextQuestion"
    /\ ret.val.isNull = FALSE
    /\ ~isCompleted
    /\ currentIndex = 1
    /\ ret.val.isLast = FALSE

\* C8: a nextQuestion that does not move currentIndex completes the session,
\* stamps endTime and returns null; and nextQuestion returns null exactly
\* when the session is completed afterwards.
C8_NullIffCompleted ==
    [][(engine = "ok" /\ NextQuestion)
       => /\ currentIndex' = currentIndex =>
                (isCompleted' /\ endTime' = clock /\ ret'.val.isNull)
          /\ ret'.val.isNull <=> isCompleted']_vars

\* C9: in a completed session only restart and startNewQuiz change
\* isCompleted, currentIndex, userAnswers, selectedQuestions or endTime.
C9_CompletedIsTerminal ==
    [][(/\ engine = "ok"
        /\ isCompleted
        /\ ~Restart
        /\ ~(\E count \in CountArgs : StartNewQuiz(count)))
       => UNCHANGED <<isCompleted, currentIndex, userAnswers, selectedQuestions,
                      endTime>>]_vars

\* C10: submitAnswer on a completed session throws, whatever the argument,
\* and stores no answer.
C10_SubmitWhenCompletedFails ==
    [][\A selectedAnswer \in AnswerInputs :
          (/\ engine = "ok"
           /\ isCompleted
           /\ ret'.op = "submitAnswer"
           /\ ret'.arg = selectedAnswer
           /\ SubmitAnswer(selectedAnswer))
          => /\ ret'.err = "QuizCompleted"
             /\ userAnswers' = userAnswers
             /\ isCompleted']_vars

\* a submitAnswer with a well-formed answer was rejected because the session
\* is completed
C10_Witness ==
    /\ engine = "ok"
    /\ isCompleted
    /\ ret.op = "submitAnswer"
    /\ ret.arg = <<"A">>
    /\ ret.err = "QuizCompleted"

\* a string the format rules reject: empty, longer than 10 characters, or
\* with a character outside A-Z
Malformed(s) ==
    \/ Len(s) = 0
    \/ Len(s) > 10
    \/ \E i \in 1..Len(s) : s[i] \notin UpperCase

\* C11: in a session that is not completed, submitAnswer fails on the format
\* of its argument exactly when the argument is empty, longer than 10
\* characters or has a character outside A-Z.
C11_MalformedExactly ==
    (engine = "ok" /\ ~isCompleted /\ ret.op = "submitAnswer") =>
        (ret.err = "MalformedAnswer" <=> Malformed(ret.arg))

\* C12: in a session that is not completed, a well-formed submitAnswer on the
\* current question fails with an unknown-option error when one of its
\* letters is no key of the question's options and succeeds, storing the
\* answer, when all are; a submitAnswer that fails leaves userAnswers as it was.
C12_UnknownOption ==
    /\ [](( /\ engine = "ok"
            /\ ~isCompleted
            /\ ret.op = "submitAnswer"
            /\ ~Malformed(ret.arg)
            /\ currentIndex < Len(selectedQuestions) ) =>
          LET keys == DOMAIN pool[selectedQuestions[currentIndex + 1]].options IN
          /\ Letters(ret.arg) \subseteq keys =>
                (ret.err = "" /\ userAnswers[currentIndex + 1] = ret.arg)
          /\ ~(Letters(ret.arg) \subseteq keys) => ret.err = "UnknownOption")
    /\ [][( /\ engine = "ok"
            /\ ret'.op = "submitAnswer"
            /\ ret'.err /= ""
            /\ SubmitAnswer(ret'.arg) ) => userAnswers' = userAnswers]_vars

\* an answer with an unknown letter was rejected after an answer had been
\* stored for the same question
C12_Witness ==
    /\ engine = "ok"
    /\ ~isCompleted
    /\ ret.op = "submitAnswer"
    /\ ret.err = "UnknownOption"
    /\ currentIndex < Len(selectedQuestions)
    /\ userAnswers[currentIndex + 1] /= Null

\* the positions whose stored answer has exactly the letters of correctAnswers
CorrectlyAnswered ==
    {i \in 1..Len(selectedQuestions) :
        /\ userAnswers[i] /= Null
        /\ Letters(userAnswers[i]) = Letters(pool[selectedQuestions[i]].correctAnswers)}

\* C13: getResults on a completed session reports totalQuestions = |selected|,
\* correctCount = the number of correctly answered positions and
\* score = round(100 * correctCount / totalQuestions), halves up, so that the
\* score is between 0 and 100 and is 100 exactly when all are correct.
C13_Score ==
    (engine = "ok" /\ ret.op = "getResults" /\ ret.err = "") =>
        /\ ret.val.totalQuestions = Len(selectedQuestions)
        /\ ret.val.correctCount = Cardinality(CorrectlyAnswered)
        /\ ret.val.score = RoundDiv(100 * ret.val.correctCount, ret.val.totalQuestions)
        /\ ret.val.score >= 0
        /\ ret.val.score <= 100
        /\ (ret.val.score = 100 <=> ret.val.correctCount = ret.val.totalQuestions)

\* C14: getResults throws in every state in which the session is not
\* completed, changing nothing of the session, and returns in every completed
\* state.
C14_ResultsOnlyWhenCompleted ==
    [][(engine = "ok" /\ ret'.op = "getResults" /\ GetResults)
       => /\ ~isCompleted => (ret'.err = "NotCompleted" /\ UNCHANGED <<session, pool>>)
          /\ isCompleted => (ret'.err = "" /\ ret'.val.isNull = FALSE)]_vars

\* getResults was refused on a session in progress
C14_Witness ==
    /\ engine = "ok"
    /\ ret.op = "getResults"
    /\ ret.err = "NotCompleted"
    /\ ~isCompleted
    /\ submitted

\* C15: the duration getResults reports is endTime - startTime in whole
\* seconds, never negative, and 0 when the session was completed without a
\* successful submitAnswer.
C15_Duration ==
    (engine = "ok" /\ ret.op = "getResults" /\ ret.err = "") =>
        /\ ret.val.duration >= 0
        /\ (startTime /= NoTime /\ endTime /= NoTime) =>
              ret.val.duration = RoundDiv((endTime - startTime) * TickMs, 1000)
        /\ ~submitted => ret.val.duration = 0

\* C16: startNewQuiz draws a subset without repetition from the
\* session's pool, of size min(count or previous count, |pool|), and resets
\* the session to not started.
C16_NewQuizSizeIsMin ==
    (engine = "ok" /\ ret.op = "startNewQuiz") =>
        /\ NoDuplicates(selectedQuestions)
        /\ Range(selectedQuestions) \subseteq Range(allQuestions)
        /\ Len(selectedQuestions) = Min(RequestedCount, Len(allQuestions))
        /\ currentIndex = 0
        /\ userAnswers = NullAnswers(Len(selectedQuestions))
        /\ startTime = NoTime
        /\ endTime = NoTime
        /\ ~isCompleted

\* C17: right after construction the session is not started, at position 0,
\* with one null answer per selected question and no timestamps, and
\* getCurrentQuestion returns the first selected question.
C17_FreshSession ==
    (engine = "ok" /\ ret.op = "constructor") =>
        /\ currentIndex = 0
        /\ userAnswers = NullAnswers(Len(selectedQuestions))
        /\ startTime = NoTime
        /\ endTime = NoTime
        /\ ~isCompleted
        /\ getCurrentQuestion(selectedQuestions, currentIndex).isNull = FALSE
        /\ getCurrentQuestion(selectedQuestions, currentIndex).question
              = selectedQuestions[1]

\* C18: only startNewQuiz changes selectedQuestions; restart keeps them and
\* resets position, answers and timestamps.
C18_SubsetFixed ==
    [][/\ (engine = "ok" /\ ~(ret'.op = "startNewQuiz" /\ clock' = clock))
            => selectedQuestions' = selectedQuestions
       /\ (engine = "ok" /\ ret'.op = "restart" /\ Restart)
            => /\ selectedQuestions' = selectedQuestions
               /\ currentIndex' = 0
               /\ userAnswers' = NullAnswers(Len(selectedQuestions))
               /\ startTime' = NoTime
               /\ endTime' = NoTime
               /\ ~isCompleted']_vars

\* restart on a session of two questions
C18_Witness ==
    /\ engine = "ok"
    /\ ret.op = "restart"
    /\ Len(selectedQuestions) = 2
    /\ Len(allQuestions) = 3

\* C19: no call on a session changes a question object of the pool.
C19_PoolReadOnly ==
    [][pool' = pool]_vars

----------------------------------------------------------------------------
(* Properties of the parser *)

\* C20: after every parseQuestions call that passes the check of the whole
\* document, whether it returns or throws, processedQuestions +
\* skippedQuestions is the number of question blocks found in the document
\* and processedQuestions is the length of the list of questions produced.
C20_CountersMatchBlocks ==
    (ret.op = "parseQuestions" /\ ret.err /= "InvalidContent") =>
        /\ processedQuestions + skippedQuestions = Len(questionBlocks(markdownContent, 1))
        /\ ret.err = "" => processedQuestions = Len(ret.val.questions)
        /\ ret.err /= "" => processedQuestions = 0

\* a document with two blocks was parsed: one accepted, one whose
\* extraction threw
C20_Witness ==
    /\ ret.op = "parseQuestions"
    /\ ret.err = ""
    /\ processedQuestions = 1
    /\ skippedQuestions = 1
    /\ "BlockFailed" \in Range(validationErrors)

----------------------------------------------------------------------------
(* Properties of the records of a pool *)

\* the pool returned by the last call, when that was a parseQuestions that
\* returned
ReturnedPool == ret.op = "parseQuestions" /\ ret.err = ""

\* C21: every record of a pool returned by parseQuestions has correct answers,
\* and each of them is a key of the record's options
C21_AnswersAmongOptions ==
    ReturnedPool =>
        \A k \in 1..Len(ret.val.questions) :
            LET question == ret.val.questions[k] IN
            /\ question.correctAnswers /= <<>>
            /\ \A j \in 1..Len(question.correctAnswers) :
                   OptionPresent(question.options, question.correctAnswers[j])

\* a pool was returned for a document with a block whose answer is no option
C21_Witness ==
    /\ ReturnedPool
    /\ Contains(markdownContent, AnswerNotAnOption)
    /\ skippedQuestions = 1
    /\ Len(ret.val.questions) = 1

\* C22: every record of a pool returned by parseQuestions has a content of 10
\* to 2000 characters, 2 to 8 options with A and B among them, every option
\* key an uppercase letter and every option text of 1 to 500 characters
C22_RecordInvariants ==
    ReturnedPool =>
        \A k \in 1..Len(ret.val.questions) :
            LET question == ret.val.questions[k]
                options == question.options
            IN  /\ Len(question.content) \in 10..2000
                /\ Len(options) \in 2..8
                /\ \E a \in 1..Len(options) : options[a].letter = "A"
                /\ \E b \in 1..Len(options) : options[b].letter = "B"
                /\ \A o \in 1..Len(options) :
                       /\ options[o].letter \in UpperCase
                       /\ Len(options[o].text) \in 1..500

\* a pool was returned for a document with a block over a limit
C22_Witness ==
    /\ ReturnedPool
    /\ Contains(markdownContent, LongOption)
    /\ skippedQuestions = 1
    /\ Len(ret.val.questions) = 1

\* C23: parseQuestions is a function of the document alone: a call that
\* follows another one on the same document, at whatever time, yields the
\* same pool, field by field, and the same counters
C23_ParseIsPure ==
    [][(ret.op = "parseQuestions" /\ ret'.op = "parseQuestions")
          => /\ ret' = ret
             /\ processedQuestions' = processedQuestions
             /\ skippedQuestions' = skippedQuestions]_vars

\* the record of the block WellFormed(number, answer) is in the pool
Accepted(questions, number, answer) ==
    \E k \in 1..Len(questions) :
        /\ questions[k].id = PadStart3(number)
        /\ questions[k].content = LongText
        /\ questions[k].options = <<[letter |-> "A", text |-> <<"x">>],
                                    [letter |-> "B", text |-> <<"y">>]>>
        /\ questions[k].correctAnswers = answer

\* the well-formed blocks of the documents: number and message
WellFormedBlocks ==
    { <<(<<"1">>), (<<"A">>)>>, <<(<<"0", "0", "2">>), (<<"B", "A">>)>>,
      <<(<<"4", "0">>), (<<"A">>)>> }

\* C24: parseQuestions of a document with a well-formed block does not throw
\* and returns a pool with the record of every well-formed block, whatever
\* malformed blocks stand before or after it
C24_WellFormedAlwaysAccepted ==
    ret.op = "parseQuestions" =>
        \A w \in WellFormedBlocks :
            Contains(markdownContent, WellFormed(w[1], w[2]))
                => ret.err = "" /\ Accepted(ret.val.questions, w[1], w[2])

\* a well-formed block was accepted after a block whose extraction threw
C24_Witness ==
    /\ ReturnedPool
    /\ Contains(markdownContent, NoOptionLine \o WellFormed(<<"1">>, <<"A">>))
    /\ skippedQuestions = 1
    /\ Accepted(ret.val.questions, <<"1">>, <<"A">>)

\* the entries that record the rejection of a block: the error logged when
\* its extraction threw, the warning logged when it failed validation
RejectionEntries ==
    Cardinality({ k \in 1..Len(validationErrors) : validationErrors[k] = "BlockFailed" })
    + Cardinality({ k \in 1..Len(parsingWarnings) : parsingWarnings[k] = "BlockOmitted" })

\* C25: once parseQuestions has finished, the errors and warnings it recorded
\* hold an entry for each block it dropped: at least skippedQuestions entries
C25_RejectionsRecorded ==
    ret.op = "parseQuestions" => RejectionEntries >= skippedQuestions

----------------------------------------------------------------------------
(* Properties of the load *)

\* the document has no heading line, or no line with a control marker, or no
\* option line
LacksPattern(lines) ==
    \/ ~\E k \in 1..Len(lines) : IsHeading(lines[k])
    \/ ~\E k \in 1..Len(lines) : Includes(lines[k], Str_Button)
    \/ ~\E k \in 1..Len(lines) : IsOptionLine(lines[k])

\* C26: the load of a document without a heading, without a control marker
\* or without an option line fails before any block is processed: it
\* throws, no pool is stored and no block is counted
C26_FatalPrecondition ==
    (ret.op = "loadQuestions" /\ LacksPattern(markdownContent))
        => /\ ret.err /= ""
           /\ appQuestions = <<>>
           /\ processedQuestions = 0
           /\ skippedQuestions = 0

----------------------------------------------------------------------------
(* Properties of the order and of the ids *)

\* the ids of a pool, in its order
IdsOf(questions) == [k \in 1..Len(questions) |-> questions[k].id]

\* the blocks of the documents that break no rule, each with its number
RuleAbiding ==
    { <<WellFormed(w[1], w[2]), w[1]>> : w \in WellFormedBlocks }
    \cup { <<RepeatedLetter, (<<"1", "7">>)>>, <<LetterInBody, (<<"1", "8">>)>> }

\* the padded numbers of the headings of the rule-abiding blocks of a
\* document, in the order of the document, from line k on
RECURSIVE WellFormedIds(_, _)
WellFormedIds(lines, k) ==
    IF k > Len(lines) THEN <<>>
    ELSE LET here == { b \in RuleAbiding :
                         StartsWith(SubSeq(lines, k, Len(lines)), b[1]) }
         IN  (IF here = {} THEN <<>>
              ELSE <<PadStart3((CHOOSE b \in here : TRUE)[2])>>)
             \o WellFormedIds(lines, k + 1)

\* C27: the pool holds the records of the accepted blocks in the order of
\* the document, each with the padded number of its own heading as id
C27_DocumentOrder ==
    ReturnedPool => IdsOf(ret.val.questions) = WellFormedIds(markdownContent, 1)

\* block 002 stands before block 1 in the document, and so in the pool
C27_Witness ==
    /\ ReturnedPool
    /\ markdownContent = WellFormed(<<"0", "0", "2">>, <<"B", "A">>)
                          \o WellFormed(<<"1">>, <<"A">>) \o <<Blank>>
    /\ IdsOf(ret.val.questions) = <<(<<"0", "0", "2">>), (<<"0", "0", "1">>)>>

\* C28: no two records of a pool returned by parseQuestions have the same id
C28_UniqueIds ==
    ReturnedPool =>
        \A i, j \in 1..Len(ret.val.questions) :
            ret.val.questions[i].id = ret.val.questions[j].id => i = j

\* C29: the numbers of the headings cause no rejection and no failure of the
\* load: a loaded document gives the records of all its well-formed blocks,
\* and a document of two well-formed blocks loads, whatever their numbers,
\* unless the file cannot be fetched; a repeated number or a gap only adds
\* a warning
C29_NumbersTolerated ==
    ret.op = "loadQuestions" =>
        /\ ret.err = "" => IdsOf(appQuestions) = WellFormedIds(markdownContent, 1)
        /\ \A v, w \in WellFormedBlocks :
              (/\ markdownContent = WellFormed(v[1], v[2]) \o WellFormed(w[1], w[2])
                                     \o <<Blank>>
               /\ ret.err /= "FetchFailed")
                  => /\ ret.err = ""
                     /\ skippedQuestions = 0
                     /\ Len(appQuestions) = 2
                     /\ (v = w) = ("DuplicateNumber" \in Range(validationWarnings))
                     /\ (parseInt(w[1]) - parseInt(v[1]) \notin {0 - 1, 0, 1})
                            = ("NumberGap" \in Range(validationWarnings))

\* a document with the number 1 twice was loaded: two records, one warning
\* for the repeated number
C29_Witness ==
    /\ ret.op = "loadQuestions"
    /\ ret.err = ""
    /\ markdownContent = WellFormed(<<"1">>, <<"A">>) \o WellFormed(<<"1">>, <<"A">>)
                          \o <<Blank>>
    /\ Len(appQuestions) = 2
    /\ validationWarnings = <<"FewOptions", "DuplicateNumber">>

\* C30: of several option lines with the same letter the first gives the
\* text of the option, and the keys stand in the order in which the letters
\* first appear: the block with the lines "A. x", "B. y", "A. z" gives the
\* options A: "x", B: "y"
C30_FirstOccurrenceWins ==
    ReturnedPool =>
        \A k \in 1..Len(ret.val.questions) :
            StartsWith(ret.val.questions[k].rawBlock, RepeatedLetter)
                => ret.val.questions[k].options =
                       <<[letter |-> "A", text |-> <<"x">>],
                         [letter |-> "B", text |-> <<"y">>]>>

----------------------------------------------------------------------------
(* Properties of the extraction *)

\* the uppercase letters of the values of message and of inquire in a block
AttributeLetters(block) ==
    { c \in Range(AttributeOf(block, 1, Str_Message))
             \cup Range(AttributeOf(block, 1, Str_Inquire)) : c \in UpperCase }

\* C31: for every block of a parsed document, the correct answers extracted
\* hold each uppercase letter of message and of inquire once, and nothing
\* else
C31_AnswersDeduplicated ==
    (ret.op = "parseQuestions" /\ ret.err /= "InvalidContent") =>
        \A k \in 1..Len(questionBlocks(markdownContent, 1)) :
            LET answers == extractCorrectAnswer(questionBlocks(markdownContent, 1)[k]) IN
            /\ NoDuplicates(answers)
            /\ Range(answers) = AttributeLetters(questionBlocks(markdownContent, 1)[k])

\* C32: the document of one block with heading 001, body "Text", options
\* "A. x" and "B. y" and message "A" parses to a pool of one record with id
\* "001", options A: "x" and B: "y", and correct answers A
C32_ExampleParses ==
    (ret.op = "parseQuestions" /\ markdownContent = ShortContent \o <<Blank>>) =>
        /\ ret.err = ""
        /\ Len(ret.val.questions) = 1
        /\ ret.val.questions[1].id = <<"0", "0", "1">>
        /\ ret.val.questions[1].options =
               <<[letter |-> "A", text |-> <<"x">>], [letter |-> "B", text |-> <<"y">>]>>
        /\ ret.val.questions[1].correctAnswers = <<"A">>

----------------------------------------------------------------------------
(* Further properties of the session engine *)

\* C33: submitAnswer changes neither currentIndex nor isCompleted nor endTime
\* nor an answer at another index; when it throws it changes no answer, when
\* it returns the answer at currentIndex is the one submitted (a later one
\* replaces an earlier one); and getResults reports for each index the
\* stored answer and whether that answer is correct
C33_SubmitWritesOneAnswer ==
    /\ [][(ret'.op = "submitAnswer" /\ \E a \in AnswerInputs : SubmitAnswer(a))
            => /\ UNCHANGED <<currentIndex, isCompleted, endTime>>
               /\ Len(userAnswers') = Len(userAnswers)
               /\ \A i \in 1..Len(userAnswers) :
                      i /= currentIndex + 1 => userAnswers'[i] = userAnswers[i]
               /\ ret'.err /= "" => userAnswers' = userAnswers
               /\ ret'.err = "" => userAnswers'[currentIndex + 1] = ret'.arg]_vars
    /\ []((engine = "ok" /\ ret.op = "getResults" /\ ret.err = "") =>
             \A k \in 1..Len(selectedQuestions) :
                 /\ ret.val.details[k].userAnswer = userAnswers[k]
                 /\ ret.val.details[k].isCorrect = (k \in CorrectlyAnswered))

\* C34: in every state of a session that was created, currentIndex is a
\* position of selectedQuestions, userAnswers has one entry per selected
\* question, and getCurrentQuestion does not return null
C34_IndexInRange ==
    engine = "ok" =>
        /\ 0 <= currentIndex
        /\ currentIndex < Len(selectedQuestions)
        /\ Len(userAnswers) = Len(selectedQuestions)
        /\ ~getCurrentQuestion(selectedQuestions, currentIndex).isNull

----------------------------------------------------------------------------
(* Further properties of the parser *)

\* C35: parseQuestions returns a list with at least one record or throws; it
\* throws when blocks were found and every one of them was rejected
C35_NeverEmptyPool ==
    ret.op = "parseQuestions" =>
        /\ ret.err = "" => Len(ret.val.questions) >= 1
        /\ processedQuestions = 0 => ret.err /= ""

\* a document with two blocks, both rejected, was parsed
C35_Witness ==
    /\ ret.op = "parseQuestions"
    /\ ret.err = "NoValidQuestions"
    /\ processedQuestions = 0
    /\ skippedQuestions = 2

\* C36: no line of the body of a record, the lines extractQuestionContent
\* keeps, gives an option to the record: none matches optionRegex
C36_BodyGivesNoOption ==
    ReturnedPool =>
        \A k \in 1..Len(ret.val.questions) :
            \A i \in 1..Len(ContentLines(ret.val.questions[k].rawBlock, 3)) :
                ~OptionMatch(ContentLines(ret.val.questions[k].rawBlock, 3)[i]).matches

----------------------------------------------------------------------------
(* FileHandler: loadFileWithRetry(filePath, maxRetries = 3) on 'Quiz.md'.   *)
(* A message is the sequence of its characters, written up to the end of   *)
(* the file path or up to the size; what follows them in a message of      *)
(* getHttpErrorMessage or of validateFileSize holds none of the texts the  *)
(* loop looks for.                                                         *)

\* the default of the parameter maxRetries
maxRetries == 3

\* what an attempt can meet: the content; a response that is not ok, with
\* its status; a rejected fetch; a content-length above maxFileSize or
\* below minFileSize
FetchOutcomes == {"ok", "404", "500", "rejected", "large", "small"}

\* the message of the error an attempt throws: getHttpErrorMessage for a
\* response that is not ok, the TypeError of fetch, validateFileSize
FetchError(outcome) ==
    CASE outcome = "404" ->
           <<"A", "r", "c", "h", "i", "v", "o", " ", "n", "o", " ",
             "e", "n", "c", "o", "n", "t", "r", "a", "d", "o", ":", " ">>
           \o <<"Q", "u", "i", "z", ".", "m", "d">>
      [] outcome = "500" ->
           <<"E", "r", "r", "o", "r", " ", "d", "e", "l", " ",
             "s", "e", "r", "v", "i", "d", "o", "r", " ", "a", "l", " ",
             "c", "a", "r", "g", "a", "r", ":", " ">>
           \o <<"Q", "u", "i", "z", ".", "m", "d">>
      [] outcome = "rejected" ->
           <<"F", "a", "i", "l", "e", "d", " ", "t", "o", " ",
             "f", "e", "t", "c", "h">>
      [] outcome = "large" ->
           <<"A", "r", "c", "h", "i", "v", "o", " ",
             "d", "e", "m", "a", "s", "i", "a", "d", "o", " ",
             "g", "r", "a", "n", "d", "e", ":", " ">>
      [] outcome = "small" ->
           <<"A", "r", "c", "h", "i", "v", "o", " ",
             "d", "e", "m", "a", "s", "i", "a", "d", "o", " ",
             "p", "e", "q", "u", "e", "ñ", "o", ":", " ">>
      [] OTHER -> <<>>

\* the test of the catch block that ends the loop
NonRetryable(message) ==
    \/ Includes(message, <<"F", "i", "l", "e", " ", "n", "o", "t", " ",
                           "f", "o", "u", "n", "d">>)
    \/ Includes(message, <<"U", "n", "s", "u", "p", "p", "o", "r", "t", "e", "d", " ",
                           "f", "i", "l", "e", " ", "t", "y", "p", "e">>)
    \/ Includes(message, <<"F", "i", "l", "e", " ", "t", "o", "o", " ",
                           "l", "a", "r", "g", "e">>)
    \/ Includes(message, <<"F", "i", "l", "e", " ", "t", "o", "o", " ",
                           "s", "m", "a", "l", "l">>)

\* one turn of the loop: the attempt, and after a failure the catch block
\* with its wait; the call returns the content of the attempt, or throws
\* lastError when the loop is left. The content of attempt n is written n;
\* the wait after attempt n is Math.pow(2, n - 1) * 1000.
FetchAttempt(outcome) ==
    /\ ret.op /= "loadFileWithRetry"
    /\ attempt < maxRetries
    /\ attempt' = attempt + 1
    /\ fetches' = Append(fetches, outcome)
    /\ IF outcome = "ok"
       THEN /\ ret' = Returned("loadFileWithRetry", <<>>, attempt + 1)
            /\ UNCHANGED <<lastError, delays>>
       ELSE /\ lastError' = FetchError(outcome)
            /\ IF NonRetryable(FetchError(outcome))
               THEN /\ ret' = Threw("loadFileWithRetry", <<>>, FetchError(outcome))
                    /\ UNCHANGED delays
               ELSE IF attempt + 1 < maxRetries
               THEN /\ delays' = Append(delays, (2 ^ attempt) * 1000)
                    /\ UNCHANGED ret
               ELSE /\ ret' = Threw("loadFileWithRetry", <<>>, FetchError(outcome))
                    /\ UNCHANGED delays
    /\ UNCHANGED <<pool, engine, session, clock, submitted, application>>
    /\ UNCHANGED <<processedQuestions, skippedQuestions, validationErrors,
                   parsingWarnings, markdownContent, loadingErrors,
                   validationWarnings, appQuestions>>

NextRetry == \E outcome \in FetchOutcomes : FetchAttempt(outcome)

\* a call of loadFileWithRetry in an application that has done nothing else
SpecRetry == Init /\ [][NextRetry]_vars

\* C40: loadFileWithRetry makes at most maxRetries attempts, returns the
\* content of the first attempt that succeeds, and an attempt that meets a
\* 404 or a content-length out of bounds is the last one: the call throws
\* its error and no wait follows it
C40_RetryPolicy ==
    /\ Len(fetches) <= maxRetries
    /\ (ret.op = "loadFileWithRetry" /\ ret.err = "") =>
           /\ fetches[ret.val] = "ok"
           /\ \A k \in 1..(ret.val - 1) : fetches[k] /= "ok"
    /\ \A k \in 1..Len(fetches) :
          fetches[k] \in {"404", "large", "small"} =>
              /\ Len(fetches) = k
              /\ Len(delays) = k - 1
              /\ ret.op = "loadFileWithRetry"
              /\ ret.err = FetchError(fetches[k])

----------------------------------------------------------------------------
(* QuizApp: the handlers of the events of the page.                        *)
(* A file is taken by what loadMarkdownFile and parseQuestions give for    *)
(* it, and a record of this.questions is written as QuizEngine reads it.   *)
(* correctAnswers of every record is in sorted order, so the sort in place *)
(* of isAnswerCorrect leaves the objects of this.questions as they are.    *)
(* The counters and the lists of the parser and of the file handler are    *)
(* left out of the handlers.                                               *)

\* the names the page gives as filename
FileNames == {"Quiz.md", "Other.md", "Broken.md"}

\* what parseQuestions returns for the document of a file, <<>> when it
\* throws; './Quiz.md' names the file Quiz.md
FileQuestions(path) ==
    CASE path \in {"Quiz.md", "./Quiz.md"} -> <<QA, QC>>
      [] path = "Other.md" -> <<QD>>
      [] OTHER -> <<>>

\* alternativePaths of attemptErrorRecovery
alternativePaths == <<"./Quiz.md", "../Quiz.md", "data/Quiz.md", "assets/Quiz.md">>

\* attemptErrorRecovery when this.currentFilePath is current and the fetch
\* of the paths in served succeeds: the first alternative path, from
\* position k on, that is loaded and parsed. 'data/Quiz.md' and
\* 'assets/Quiz.md' do not exist and validateFilePath refuses '../Quiz.md',
\* so they are never in served. No message of an error holds
\* 'validation' or 'Invalid', so the load with enableDetailedLogging off is
\* not tried.
RECURSIVE attemptErrorRecovery(_, _, _)
attemptErrorRecovery(current, served, k) ==
    IF k > Len(alternativePaths) THEN [recovered |-> FALSE, questions |-> <<>>]
    ELSE IF /\ alternativePaths[k] /= current
            /\ alternativePaths[k] \in served
            /\ Len(FileQuestions(alternativePaths[k])) > 0
    THEN [recovered |-> TRUE, questions |-> FileQuestions(alternativePaths[k])]
    ELSE attemptErrorRecovery(current, served, k + 1)

\* loadQuestions(load.path) from the answer of its first fetch to its end;
\* served holds the paths whose fetch succeeds. initialize() sets
\* isInitialized after its load, whether it threw or not.
LoadQuestionsDone(load, served) ==
    /\ load \in loading
    /\ loading' = loading \ {load}
    /\ isInitialized' = (isInitialized \/ load.initial)
    /\ currentFilePath' = IF load.path \in served THEN load.path ELSE currentFilePath
    /\ IF load.path \in served /\ Len(FileQuestions(load.path)) > 0
       THEN /\ appQuestions' = FileQuestions(load.path)
            /\ ret' = Returned("loadQuestions", load.path, NoVal)
       ELSE \E recoveryResult \in {attemptErrorRecovery(currentFilePath', served, 1)} :
              IF recoveryResult.recovered
              THEN /\ appQuestions' = recoveryResult.questions
                   /\ ret' = Returned("loadQuestions", load.path, NoVal)
              ELSE /\ appQuestions' = appQuestions
                   /\ ret' = Threw("loadQuestions", load.path,
                                   IF load.path \in served THEN "NoValidQuestions"
                                   ELSE "FetchFailed")
    /\ UNCHANGED <<pool, engine, session, clock, submitted, shown, retry>>
    /\ UNCHANGED <<processedQuestions, skippedQuestions, validationErrors,
                   parsingWarnings, markdownContent, loadingErrors, validationWarnings>>

\* handleLoadQuestions up to its await
HandleLoadQuestions(filename) ==
    /\ loading' = loading \cup {[path |-> filename, initial |-> FALSE]}
    /\ ret' = Returned("handleLoadQuestions", filename, NoVal)
    /\ UNCHANGED <<pool, engine, session, clock, submitted, retry>>
    /\ UNCHANGED <<processedQuestions, skippedQuestions, validationErrors,
                   parsingWarnings, markdownContent, loadingErrors, validationWarnings,
                   appQuestions, currentFilePath, isInitialized, shown>>

\* validateQuizStartConditions: the error thrown, "" when none
validateQuizStartConditions(questionCount) ==
    IF ~isInitialized THEN "NotInitialized"
    ELSE IF Len(appQuestions) = 0 THEN "EmptyList"
    ELSE IF questionCount < 1 THEN "InvalidCount"
    ELSE IF questionCount > 100 THEN "CountTooHigh"
    ELSE ""

\* handleStartQuiz: loadQuestions(filename) is called and not awaited, so
\* what follows its first await runs after the handler has returned; the
\* handler goes on with this.questions as they are. No message holds
\* 'No hay preguntas', so attemptQuestionReload is not called.
HandleStartQuiz(questionCount, filename) ==
    /\ loading' = IF filename /= currentFilePath
                  THEN loading \cup {[path |-> filename, initial |-> FALSE]}
                  ELSE loading
    /\ IF validateQuizStartConditions(questionCount) /= ""
       THEN /\ ret' = Threw("handleStartQuiz", <<questionCount, filename>>,
                            validateQuizStartConditions(questionCount))
            /\ UNCHANGED <<pool, engine, session, submitted, shown>>
       ELSE \E v \in {validateInitialQuestions(appQuestions)} :
            IF v.err /= ""
            THEN /\ ret' = Threw("handleStartQuiz", <<questionCount, filename>>, v.err)
                 /\ UNCHANGED <<pool, engine, session, submitted, shown>>
            ELSE /\ pool' = appQuestions
                 /\ engine' = "ok"
                 /\ allQuestions' = v.allQuestions
                 /\ numberOfQuestions' = Min(questionCount, Len(appQuestions))
                 /\ \E selected \in selectRandomQuestions(v.allQuestions,
                                        Min(questionCount, Len(appQuestions))) :
                       /\ selectedQuestions' = selected
                       /\ userAnswers' = NullAnswers(Len(selected))
                       /\ shown' = IF Len(selected) > 0 THEN "quiz" ELSE shown
                 /\ currentIndex' = 0
                 /\ startTime' = NoTime
                 /\ endTime' = NoTime
                 /\ isCompleted' = FALSE
                 /\ submitted' = FALSE
                 /\ ret' = Returned("handleStartQuiz", <<questionCount, filename>>, NoVal)
    /\ UNCHANGED <<clock, retry, appQuestions, currentFilePath, isInitialized>>
    /\ UNCHANGED <<processedQuestions, skippedQuestions, validationErrors,
                   parsingWarnings, markdownContent, loadingErrors, validationWarnings>>

\* handleAnswerSubmitted with nextQuestion outside the try, so that it is
\* called after a submitAnswer that threw as well
HandleAnswerSubmitted_AdvanceAlways(answer) ==
    /\ IF engine /= "ok"
       THEN /\ ret' = Threw("handleAnswerSubmitted", answer, "NoEngine")
            /\ UNCHANGED <<pool, session, submitted, shown>>
       ELSE IF validateQuizState(selectedQuestions, isCompleted) /= ""
       THEN /\ ret' = Threw("submitAnswer", answer,
                            validateQuizState(selectedQuestions, isCompleted))
            /\ UNCHANGED <<pool, session, submitted, shown>>
       ELSE IF currentIndex >= Len(selectedQuestions)
       THEN /\ ret' = Threw("submitAnswer", answer, "IndexOutOfRange")
            /\ UNCHANGED <<pool, session, submitted, shown>>
       ELSE
         \E formatErr \in {validateAnswerFormat(answer)} :
         \E optionErr \in {IF formatErr /= "" THEN ""
                           ELSE validateAnswerForQuestion(
                                    answer, pool[selectedQuestions[currentIndex + 1]])} :
            /\ startTime' = IF startTime = NoTime THEN clock ELSE startTime
            /\ IF formatErr /= "" \/ optionErr /= ""
               THEN /\ ret' = Threw("submitAnswer", answer,
                                    IF formatErr /= "" THEN formatErr ELSE optionErr)
                    /\ IF currentIndex < Len(selectedQuestions) - 1
                       THEN /\ currentIndex' = currentIndex + 1
                            /\ shown' = "quiz"
                            /\ UNCHANGED <<pool, isCompleted, endTime>>
                       ELSE \E scoreData \in {calculateScore(pool, selectedQuestions,
                                                             userAnswers)} :
                            /\ isCompleted' = TRUE
                            /\ endTime' = clock
                            /\ pool' = scoreData.pool
                            /\ shown' = "results"
                            /\ UNCHANGED currentIndex
                    /\ UNCHANGED <<userAnswers, submitted>>
               ELSE \E r \in {isAnswerCorrect(pool, selectedQuestions, currentIndex,
                                              answer)} :
                    /\ userAnswers' = [userAnswers EXCEPT ![currentIndex + 1] = answer]
                    /\ submitted' = TRUE
                    /\ IF currentIndex < Len(selectedQuestions) - 1
                       THEN /\ currentIndex' = currentIndex + 1
                            /\ pool' = r.pool
                            /\ shown' = "quiz"
                            /\ ret' = Returned("nextQuestion", <<>>,
                                         getCurrentQuestion(selectedQuestions,
                                                            currentIndex + 1))
                            /\ UNCHANGED <<isCompleted, endTime>>
                       ELSE \E scoreData \in {calculateScore(r.pool, selectedQuestions,
                                                             userAnswers')} :
                            /\ isCompleted' = TRUE
                            /\ endTime' = clock
                            /\ pool' = scoreData.pool
                            /\ shown' = "results"
                            /\ ret' = Returned("getResults", <<>>,
                                 [isNull |-> FALSE,
                                  score |-> scoreData.score,
                                  correctCount |-> scoreData.correctCount,
                                  totalQuestions |-> scoreData.totalQuestions,
                                  percentage |-> scoreData.percentage,
                                  details |-> [k \in 1..Len(selectedQuestions) |->
                                                  ResultDetail(scoreData.pool,
                                                               selectedQuestions,
                                                               userAnswers', k - 1)],
                                  duration |-> Duration(startTime', clock),
                                  startTime |-> startTime',
                                  endTime |-> clock])
                            /\ UNCHANGED currentIndex
            /\ UNCHANGED <<allQuestions, numberOfQuestions, selectedQuestions>>
    /\ UNCHANGED <<engine, clock, retry, appQuestions, currentFilePath,
                   isInitialized, loading>>
    /\ UNCHANGED <<processedQuestions, skippedQuestions, validationErrors,
                   parsingWarnings, markdownContent, loadingErrors, validationWarnings>>

\* handleAnswerSubmitted: submitAnswer; when it returned, nextQuestion, and
\* then displayCurrentQuestion when nextQuestion gave a question, otherwise
\* displayResults with its getResults. ret is the last call of the engine.
HandleAnswerSubmitted(answer) ==
    /\ IF engine /= "ok"
       THEN /\ ret' = Threw("handleAnswerSubmitted", answer, "NoEngine")
            /\ UNCHANGED <<pool, session, submitted, shown>>
       ELSE IF validateQuizState(selectedQuestions, isCompleted) /= ""
       THEN /\ ret' = Threw("submitAnswer", answer,
                            validateQuizState(selectedQuestions, isCompleted))
            /\ UNCHANGED <<pool, session, submitted, shown>>
       ELSE IF currentIndex >= Len(selectedQuestions)
       THEN /\ ret' = Threw("submitAnswer", answer, "IndexOutOfRange")
            /\ UNCHANGED <<pool, session, submitted, shown>>
       ELSE
         \E formatErr \in {validateAnswerFormat(answer)} :
         \E optionErr \in {IF formatErr /= "" THEN ""
                           ELSE validateAnswerForQuestion(
                                    answer, pool[selectedQuestions[currentIndex + 1]])} :
            /\ startTime' = IF startTime = NoTime THEN clock ELSE startTime
            /\ IF formatErr /= "" \/ optionErr /= ""
               THEN /\ ret' = Threw("submitAnswer", answer,
                                    IF formatErr /= "" THEN formatErr ELSE optionErr)
                    /\ UNCHANGED <<pool, currentIndex, userAnswers, isCompleted,
                                   endTime, submitted, shown>>
               ELSE \E r \in {isAnswerCorrect(pool, selectedQuestions, currentIndex,
                                              answer)} :
                    /\ userAnswers' = [userAnswers EXCEPT ![currentIndex + 1] = answer]
                    /\ submitted' = TRUE
                    /\ IF currentIndex < Len(selectedQuestions) - 1
                       THEN /\ currentIndex' = currentIndex + 1
                            /\ pool' = r.pool
                            /\ shown' = "quiz"
                            /\ ret' = Returned("nextQuestion", <<>>,
                                         getCurrentQuestion(selectedQuestions,
                                                            currentIndex + 1))
                            /\ UNCHANGED <<isCompleted, endTime>>
                       ELSE \E scoreData \in {calculateScore(r.pool, selectedQuestions,
                                                             userAnswers')} :
                            /\ isCompleted' = TRUE
                            /\ endTime' = clock
                            /\ pool' = scoreData.pool
                            /\ shown' = "results"
                            /\ ret' = Returned("getResults", <<>>,
                                 [isNull |-> FALSE,
                                  score |-> scoreData.score,
                                  correctCount |-> scoreData.correctCount,
                                  totalQuestions |-> scoreData.totalQuestions,
                                  percentage |-> scoreData.percentage,
                                  details |-> [k \in 1..Len(selectedQuestions) |->
                                                  ResultDetail(scoreData.pool,
                                                               selectedQuestions,
                                                               userAnswers', k - 1)],
                                  duration |-> Duration(startTime', clock),
                                  startTime |-> startTime',
                                  endTime |-> clock])
                            /\ UNCHANGED currentIndex
            /\ UNCHANGED <<allQuestions, numberOfQuestions, selectedQuestions>>
    /\ UNCHANGED <<engine, clock, retry, appQuestions, currentFilePath,
                   isInitialized, loading>>
    /\ UNCHANGED <<processedQuestions, skippedQuestions, validationErrors,
                   parsingWarnings, markdownContent, loadingErrors, validationWarnings>>

\* handleNewQuiz: startNewQuiz() without a count and displayCurrentQuestion,
\* or the configuration when there is no engine
HandleNewQuiz ==
    /\ IF engine = "ok"
       THEN /\ \E selected \in selectRandomQuestions(allQuestions, numberOfQuestions) :
                 /\ selectedQuestions' = selected
                 /\ userAnswers' = NullAnswers(Len(selected))
                 /\ shown' = IF Len(selected) > 0 THEN "quiz" ELSE shown
            /\ currentIndex' = 0
            /\ startTime' = NoTime
            /\ endTime' = NoTime
            /\ isCompleted' = FALSE
            /\ submitted' = FALSE
            /\ ret' = Returned("startNewQuiz", <<>>, NoVal)
            /\ UNCHANGED <<allQuestions, numberOfQuestions>>
       ELSE /\ shown' = "config"
            /\ ret' = Returned("handleNewQuiz", <<>>, NoVal)
            /\ UNCHANGED <<session, submitted>>
    /\ UNCHANGED <<pool, engine, clock, retry, appQuestions, currentFilePath,
                   isInitialized, loading>>
    /\ UNCHANGED <<processedQuestions, skippedQuestions, validationErrors,
                   parsingWarnings, markdownContent, loadingErrors, validationWarnings>>

\* the application constructed and initialize() waiting for the
\* loadQuestions of the file the page names
InitApp ==
    /\ pool = <<>>
    /\ engine = "none"
    /\ allQuestions = <<>>
    /\ numberOfQuestions = 0
    /\ selectedQuestions = <<>>
    /\ currentIndex = 0
    /\ userAnswers = <<>>
    /\ startTime = NoTime
    /\ endTime = NoTime
    /\ isCompleted = FALSE
    /\ clock = 0
    /\ ret = Returned("none", <<>>, NoVal)
    /\ submitted = FALSE
    /\ processedQuestions = 0
    /\ skippedQuestions = 0
    /\ validationErrors = <<>>
    /\ parsingWarnings = <<>>
    /\ markdownContent = <<(<<>>)>>
    /\ loadingErrors = <<>>
    /\ validationWarnings = <<>>
    /\ appQuestions = <<>>
    /\ currentFilePath = "Quiz.md"
    /\ isInitialized = FALSE
    /\ \E filename \in FileNames : loading = {[path |-> filename, initial |-> TRUE]}
    /\ shown = "config"
    /\ NoFetch

NextApp ==
    \/ \E load \in loading : \E served \in SUBSET {load.path, "./Quiz.md"} :
          LoadQuestionsDone(load, served)
    \/ \E filename \in FileNames : HandleLoadQuestions(filename)
    \/ \E questionCount \in Counts \cup {101} : \E filename \in FileNames :
          HandleStartQuiz(questionCount, filename)
    \/ \E answer \in AnswerInputs : HandleAnswerSubmitted(answer)
    \/ HandleNewQuiz
    \/ Tick

SpecApp == InitApp /\ [][NextApp]_vars

----------------------------------------------------------------------------
(* Properties of the application *)

\* C37: in the application the engine advances only after an accepted
\* answer: an answerSubmitted event whose answer submitAnswer rejects
\* leaves currentIndex as it is; every question before currentIndex has an
\* answer; the results are on the screen only while the engine is
\* completed; and in a completed engine every selected question has an
\* answer
C37_AdvanceAfterAccept ==
    /\ [][(ret'.op = "submitAnswer" /\ ret'.err /= "")
             => currentIndex' = currentIndex]_vars
    /\ [](engine = "ok" =>
             /\ \A k \in 1..currentIndex : userAnswers[k] /= Null
             /\ isCompleted => \A k \in 1..Len(selectedQuestions) :
                                  userAnswers[k] /= Null)
    /\ [](shown = "results" => engine = "ok" /\ isCompleted)

\* two questions answered one after the other, the clock read in between,
\* and the results on the screen
C37_Witness ==
    /\ engine = "ok"
    /\ isCompleted
    /\ shown = "results"
    /\ ret.op = "getResults"
    /\ Len(selectedQuestions) = 2
    /\ userAnswers = <<(<<"A">>), (<<"B">>)>>
    /\ startTime = 0
    /\ endTime = 1

\* C38: the engine a startQuiz event creates while it names a file other
\* than the current one is built from the questions of the file it names
C38_StartsFromNamedFile ==
    (ret.op = "handleStartQuiz" /\ ret.err = "" /\ ret.arg[2] /= currentFilePath)
        => pool = FileQuestions(ret.arg[2])

\* C39: currentFilePath names the file this.questions were parsed from, and
\* a loadQuestions that throws leaves currentFilePath and this.questions
\* as they were
C39_PathNamesQuestions ==
    /\ [](appQuestions /= <<>> => appQuestions = FileQuestions(currentFilePath))
    /\ [][(ret'.op = "loadQuestions" /\ ret'.err /= "")
             => UNCHANGED <<currentFilePath, appQuestions>>]_vars

====
